---------------------------- MODULE Spec2Model ----------------------------
(***************************************************************************)
(* A model of the photo-enhancer server (src/server.js): the two MCP tools *)
(* upload_image and enhance_photo, the HTTP endpoints POST /upload and     *)
(* GET /files/<name>, and the upload directory they share.                 *)
(*                                                                         *)
(* Strings are sequences of one-character strings, so that the regular     *)
(* expressions, trim, path.extname and the base64 decoder are computed the *)
(* way the code computes them.  A buffer is a record [len, data]: data is  *)
(* the byte sequence (numbers 0..255) and len its length; a body too long  *)
(* to enumerate is given by its length and a short sample of its bytes.    *)
(***************************************************************************)
EXTENDS Integers, Sequences, FiniteSets, TLC

(***************************************************************************)
(* Characters and strings                                                  *)
(***************************************************************************)
Digits == {"0", "1", "2", "3", "4", "5", "6", "7", "8", "9"}

LowerAF == {"a", "b", "c", "d", "e", "f"}

UpperAF == {"A", "B", "C", "D", "E", "F"}

Lower == LowerAF \cup {"g", "h", "i", "j", "k", "l", "m", "n", "o", "p", "q",
                       "r", "s", "t", "u", "v", "w", "x", "y", "z"}

Upper == UpperAF \cup {"G", "H", "I", "J", "K", "L", "M", "N", "O", "P", "Q",
                       "R", "S", "T", "U", "V", "W", "X", "Y", "Z"}

\* \s of a JavaScript regular expression and the characters String.trim removes
\* (the ones the model's inputs use).
WhiteSpace == {" ", "\t", "\n", "\r"}

\* The line terminators that "." of a regular expression without the s flag
\* does not match.
LineTerminators == {"\n", "\r"}

Min(a, b) == IF a < b THEN a ELSE b

Max(a, b) == IF a > b THEN a ELSE b

\* s.slice(m - 1, n) for 1-based positions m..n, cut to the positions s has.
Slice(s, m, n) == SubSeq(s, Max(m, 1), Min(n, Len(s)))

\* s.slice(from) for a 1-based position from.
Drop(s, from) == SubSeq(s, from, Len(s))

\* s.startsWith(p), and a regular expression /^p/ for a literal p.
StartsWith(s, p) == Len(s) >= Len(p) /\ SubSeq(s, 1, Len(p)) = p

\* The 1-based position of the first occurrence of pat in s at or after
\* position from, 0 when there is none (indexOf of the code, shifted by one).
IndexOf(s, pat, from) ==
  LET hits == {i \in from..(Len(s) - Len(pat) + 1) : SubSeq(s, i, i + Len(pat) - 1) = pat}
  IN  IF hits = {} THEN 0 ELSE CHOOSE i \in hits : \A j \in hits : i <= j

\* String.prototype.trim.
Trim(s) ==
  LET keep == {i \in 1..Len(s) : s[i] \notin WhiteSpace}
  IN  IF keep = {} THEN <<>>
      ELSE SubSeq(s, CHOOSE i \in keep : \A j \in keep : i <= j,
                     CHOOSE i \in keep : \A j \in keep : i >= j)

\* s.replace(/\s+/g, ""): the characters of s that are not white space, in order.
RECURSIVE StripWhiteSpace(_)
StripWhiteSpace(s) ==
  IF s = <<>> THEN <<>>
  ELSE IF Head(s) \in WhiteSpace THEN StripWhiteSpace(Tail(s))
  ELSE <<Head(s)>> \o StripWhiteSpace(Tail(s))

\* s.replace(/a/g, b) for single characters a and b.
ReplaceAll(s, a, b) == [i \in 1..Len(s) |-> IF s[i] = a THEN b ELSE s[i]]


(***************************************************************************)
(* Literals of the code                                                    *)
(***************************************************************************)
S_https == <<"h", "t", "t", "p", "s", ":", "/", "/">>

S_http == <<"h", "t", "t", "p", ":", "/", "/">>

S_data_image == <<"d", "a", "t", "a", ":", "i", "m", "a", "g", "e", "/">>

S_base64 == <<";", "b", "a", "s", "e", "6", "4", ",">>

S_mnt_data == <<"/", "m", "n", "t", "/", "d", "a", "t", "a", "/">>

S_image == <<"i", "m", "a", "g", "e", "/">>

S_files == <<"/", "f", "i", "l", "e", "s", "/">>

MIME_JPEG == S_image \o <<"j", "p", "e", "g">>

MIME_PNG == S_image \o <<"p", "n", "g">>

MIME_WEBP == S_image \o <<"w", "e", "b", "p">>

MIME_GIF == S_image \o <<"g", "i", "f">>

MIME_OCTET == <<"a", "p", "p", "l", "i", "c", "a", "t", "i", "o", "n", "/",
                "o", "c", "t", "e", "t", "-", "s", "t", "r", "e", "a", "m">>

EXT_JPG == <<".", "j", "p", "g">>

EXT_JPEG == <<".", "j", "p", "e", "g">>

EXT_PNG == <<".", "p", "n", "g">>

EXT_WEBP == <<".", "w", "e", "b", "p">>

EXT_GIF == <<".", "g", "i", "f">>

EXT_BIN == <<".", "b", "i", "n">>

\* process.env.PUBLIC_BASE_URL || "https://hitpaw-photo-enhancer-app.onrender.com":
\* the default, shortened to its scheme and a one-letter host.
PUBLIC_BASE_URL == S_https \o <<"b">>

\* const MAX_BYTES = 10 * 1024 * 1024
MAX_BYTES == 10485760

(***************************************************************************)
(* Locator predicates                                                      *)
(***************************************************************************)
\* /^https:\/\//.test(v)
isHttpsUrl(v) == StartsWith(v, S_https)

\* /^https?:\/\//.test(v)
isHttpUrl(v) == StartsWith(v, S_https) \/ StartsWith(v, S_http)

\* The characters of [a-zA-Z0-9.+-]
SubtypeChars == Lower \cup Upper \cup Digits \cup {".", "+", "-"}

\* The length of the longest run of characters of class at the start of s.
RECURSIVE RunLength(_, _)
RunLength(s, class) ==
  IF s = <<>> \/ Head(s) \notin class THEN 0 ELSE 1 + RunLength(Tail(s), class)

\* The 1-based position in v of the first character after the prefix
\* data:image/<subtype>;base64, when v starts with one, else 0.  The class of
\* the subtype does not hold ";", so the subtype is the whole run.
DataUrlPayloadStart(v) ==
  IF ~StartsWith(v, S_data_image) THEN 0
  ELSE LET rest == Drop(v, Len(S_data_image) + 1)
           n    == RunLength(rest, SubtypeChars)
       IN  IF n >= 1 /\ StartsWith(Drop(rest, n + 1), S_base64)
           THEN Len(S_data_image) + n + Len(S_base64) + 1
           ELSE 0

\* /^data:image\/[a-zA-Z0-9.+-]+;base64,/.test(v)
isDataUrl(v) == DataUrlPayloadStart(v) # 0

\* /^\/mnt\/data\//.test(v)
isMntPath(v) == StartsWith(v, S_mnt_data)

\* A table without the image types.
guessExtFromMime_bin_only(mime) == EXT_BIN

\* if (mime === "image/jpeg") return ".jpg"; ...
guessExtFromMime(mime) ==
  IF mime = MIME_JPEG THEN EXT_JPG
  ELSE IF mime = MIME_PNG THEN EXT_PNG
  ELSE IF mime = MIME_WEBP THEN EXT_WEBP
  ELSE IF mime = MIME_GIF THEN EXT_GIF
  ELSE EXT_BIN

(***************************************************************************)
(* JavaScript values that cross the backend boundary: a JSON string, null, *)
(* an absent property (undefined) or an array.  s is the value's string    *)
(* conversion (what RegExp.prototype.test sees), for a string its text.    *)
(***************************************************************************)
JsString(s) == [t |-> "string", s |-> s]

JsUndefined == [t |-> "undefined", s |-> <<"u", "n", "d", "e", "f", "i", "n", "e", "d">>]

JsNull == [t |-> "null", s |-> <<"n", "u", "l", "l">>]

JsArray(s) == [t |-> "array", s |-> s]

\* The operand is false in a condition: "", null and undefined (an array is not).
Falsy(v) == v.t \in {"undefined", "null"} \/ (v.t = "string" /\ v.s = <<>>)

\* a ?? b
Nullish(a, b) == IF a.t \in {"undefined", "null"} THEN b ELSE a

\* a || b
OrElse(a, b) == IF Falsy(a) THEN b ELSE a

\* function ensureHttpsOrEmpty(v = "") { return isHttpsUrl(v) ? v : ""; }
\* The default applies to undefined only; test() converts its operand to a
\* string, and the operand itself is what is returned.
ensureHttpsOrEmpty(v) ==
  LET w == IF v.t = "undefined" THEN JsString(<<>>) ELSE v
  IN  IF isHttpsUrl(w.s) THEN w ELSE JsString(<<>>)

(***************************************************************************)
(* Buffers                                                                 *)
(***************************************************************************)
\* A buffer holding exactly the bytes of the sequence.
BufferOf(bytes) == [len |-> Len(bytes), data |-> bytes]

\* The first k bytes of a buffer: what a write that stops early leaves.
BufferPrefix(buf, k) == [len |-> k, data |-> SubSeq(buf.data, 1, Min(k, Len(buf.data)))]

\* The characters of codes 32 to 126 in order (the grave accent left out).
Ascii ==
  <<" ", "!", "\"", "#", "$", "%", "&", "'", "(", ")", "*", "+", ",", "-", ".", "/",
    "0", "1", "2", "3", "4", "5", "6", "7", "8", "9", ":", ";", "<", "=", ">", "?",
    "@", "A", "B", "C", "D", "E", "F", "G", "H", "I", "J", "K", "L", "M", "N", "O",
    "P", "Q", "R", "S", "T", "U", "V", "W", "X", "Y", "Z", "[", "\\", "]", "^", "_",
    "", "a", "b", "c", "d", "e", "f", "g", "h", "i", "j", "k", "l", "m", "n", "o",
    "p", "q", "r", "s", "t", "u", "v", "w", "x", "y", "z", "{", "|", "}", "~">>

\* The byte of a character when only seven bits of its code are kept.
CharCode_seven_bits(c) ==
  IF c = "\t" THEN 9 ELSE IF c = "\n" THEN 10 ELSE IF c = "\r" THEN 13
  ELSE IF c = "0xFF" THEN 127
  ELSE 31 + CHOOSE i \in 1..Len(Ascii) : Ascii[i] = c

\* The character of code 255 that bodyBuf.toString("binary") gives for the
\* byte 0xFF, written here by its code.
CH_FF == "0xFF"

\* The byte of a character (Buffer.from(raw, "binary") on ASCII text); the
\* table has the characters of codes 32 to 126 but the grave accent.
CharCode(c) ==
  IF c = "\t" THEN 9 ELSE IF c = "\n" THEN 10 ELSE IF c = "\r" THEN 13
  ELSE IF c = CH_FF THEN 255
  ELSE 31 + CHOOSE i \in 1..Len(Ascii) : Ascii[i] = c

TextBody(s) == BufferOf([i \in 1..Len(s) |-> CharCode(s[i])])

(***************************************************************************)
(* parseDataUrl                                                            *)
(***************************************************************************)
B64Alphabet ==
  <<"A", "B", "C", "D", "E", "F", "G", "H", "I", "J", "K", "L", "M", "N", "O", "P",
    "Q", "R", "S", "T", "U", "V", "W", "X", "Y", "Z", "a", "b", "c", "d", "e", "f",
    "g", "h", "i", "j", "k", "l", "m", "n", "o", "p", "q", "r", "s", "t", "u", "v",
    "w", "x", "y", "z", "0", "1", "2", "3", "4", "5", "6", "7", "8", "9", "+", "/">>

B64Chars == {B64Alphabet[i] : i \in 1..Len(B64Alphabet)}

\* The six bits a character of the alphabet stands for.
B64Value(c) == (CHOOSE i \in 1..Len(B64Alphabet) : B64Alphabet[i] = c) - 1

\* /^[A-Za-z0-9+/]+={0,2}$/.test(b64)
IsPaddedBase64(b64) ==
  LET n == RunLength(b64, B64Chars)
      pad == Drop(b64, n + 1)
  IN  n >= 1 /\ Len(pad) <= 2 /\ \A i \in 1..Len(pad) : pad[i] = "="

\* Buffer.from(b64, "base64") for a string that passed IsPaddedBase64: the
\* characters before the padding are six bits each, and every whole group of
\* eight bits is a byte (leftover bits are dropped).
Base64Decode(b64) ==
  LET n  == RunLength(b64, B64Chars)
      v  == [i \in 1..(n + 2) |-> IF i <= n THEN B64Value(b64[i]) ELSE 0]
      nb == (n * 6) \div 8
      byte(k) == LET bit == 8 * (k - 1)
                     i   == (bit \div 6) + 1
                     off == bit % 6
                     win == (v[i] * 64 + v[i + 1]) * 64 + v[i + 2]
                 IN  (win \div (2 ^ (10 - off))) % 256
  IN  BufferOf([k \in 1..nb |-> byte(k)])

ParseOk(mime, buf) == [ok |-> TRUE, error |-> "", mime |-> mime, buf |-> buf]

ParseError(msg) == [ok |-> FALSE, error |-> msg, mime |-> <<>>, buf |-> BufferOf(<<>>)]

\* The padding step: mod 2 appends "==", mod 3 appends "=", mod 1 is an error
\* (the empty sequence stands for the throw).
PadBase64(b64) ==
  LET mod == Len(b64) % 4
  IN  IF mod = 2 THEN b64 \o <<"=", "=">>
      ELSE IF mod = 3 THEN b64 \o <<"=">>
      ELSE b64

\* parseDataUrl with a padding step that takes a length of 3 modulo 4 for a
\* truncation as well.
parseDataUrl_strict(dataUrl) ==
  LET start == DataUrlPayloadStart(dataUrl)
      raw   == Drop(dataUrl, start)
      b1    == ReplaceAll(ReplaceAll(StripWhiteSpace(Trim(raw)), "-", "+"), "_", "/")
      b64   == IF Len(b1) % 4 = 2 THEN b1 \o <<"=", "=">> ELSE b1
  IN  IF start = 0 \/ \E i \in 1..Len(raw) : raw[i] \in LineTerminators
      THEN ParseError("Invalid data URL.")
      ELSE IF Len(b1) % 4 \in {1, 3} THEN ParseError("Invalid base64 (likely truncated).")
      ELSE IF ~IsPaddedBase64(b64) THEN ParseError("Invalid base64 characters.")
      ELSE LET buf == Base64Decode(b64)
           IN  IF buf.len = 0 THEN ParseError("Invalid base64: decoded empty.")
               ELSE IF buf.len > MAX_BYTES
               THEN ParseError("Image too large. Please use a smaller image.")
               ELSE ParseOk(SubSeq(dataUrl, Len(<<"d", "a", "t", "a", ":">>) + 1,
                                   start - Len(S_base64) - 1), buf)

\* function parseDataUrl(dataUrl): the result, or the message of the Error thrown.
parseDataUrl(dataUrl) ==
  LET start == DataUrlPayloadStart(dataUrl)
      raw   == Drop(dataUrl, start)
  IN  \* match(/^data:(image\/[a-zA-Z0-9.+-]+);base64,(.*)$/): "." matches no
      \* line terminator, and "$" only the end of the input.
      IF start = 0 \/ \E i \in 1..Len(raw) : raw[i] \in LineTerminators
      THEN ParseError("Invalid data URL.")
      ELSE
        LET mime == SubSeq(dataUrl, Len(<<"d", "a", "t", "a", ":">>) + 1, start - Len(S_base64) - 1)
            b0   == StripWhiteSpace(Trim(raw))
            b1   == ReplaceAll(ReplaceAll(b0, "-", "+"), "_", "/")
            b64  == PadBase64(b1)
        IN  IF Len(b1) % 4 = 1 THEN ParseError("Invalid base64 (likely truncated).")
            ELSE IF ~IsPaddedBase64(b64) THEN ParseError("Invalid base64 characters.")
            ELSE LET buf == Base64Decode(b64)
                 IN  IF buf.len = 0 THEN ParseError("Invalid base64: decoded empty.")
                     ELSE IF buf.len > MAX_BYTES
                     THEN ParseError("Image too large. Please use a smaller image.")
                     ELSE ParseOk(mime, buf)

(***************************************************************************)
(* path.extname (POSIX)                                                    *)
(***************************************************************************)
\* The extension of the last component of p: from the last "." of the
\* component to its end, or empty when the component has no "." or only a
\* leading one, or is "..".  Trailing slashes are not part of the component.
extname(p) ==
  LET nonSlash == {i \in 1..Len(p) : p[i] # "/"}
  IN  IF nonSlash = {} THEN <<>>
      ELSE
        LET end       == CHOOSE i \in nonSlash : \A j \in nonSlash : i >= j
            slashes   == {i \in 1..end : p[i] = "/"}
            startPart == IF slashes = {} THEN 1
                         ELSE 1 + CHOOSE i \in slashes : \A j \in slashes : i >= j
            dots      == {i \in startPart..end : p[i] = "."}
        IN  IF dots = {} THEN <<>>
            ELSE LET startDot == CHOOSE i \in dots : \A j \in dots : i >= j
                 IN  IF startDot = startPart THEN <<>>
                     ELSE IF startDot = end /\ startDot = startPart + 1
                             /\ p[startPart] = "."
                     THEN <<>>
                     ELSE SubSeq(p, startDot, end)

(***************************************************************************)
(* parseMultipartSingleFile                                                *)
(***************************************************************************)
CRLF == <<"\r", "\n">>

\* s.split(sep) for a non-empty separator: the pieces between the
\* occurrences of sep, taken left to right without overlap.
RECURSIVE Split(_, _)
Split(s, sep) ==
  LET i == IndexOf(s, sep, 1)
  IN  IF i = 0 THEN <<s>>
      ELSE <<Slice(s, 1, i - 1)>> \o Split(Drop(s, i + Len(sep)), sep)

\* String.prototype.toLowerCase on the letters A-Z.
ToLower(s) ==
  LET alpha == <<"a", "b", "c", "d", "e", "f", "g", "h", "i", "j", "k", "l", "m",
                 "n", "o", "p", "q", "r", "s", "t", "u", "v", "w", "x", "y", "z">>
      ALPHA == <<"A", "B", "C", "D", "E", "F", "G", "H", "I", "J", "K", "L", "M",
                 "N", "O", "P", "Q", "R", "S", "T", "U", "V", "W", "X", "Y", "Z">>
  IN  [i \in 1..Len(s) |->
         IF s[i] \in Upper THEN alpha[CHOOSE k \in 1..26 : ALPHA[k] = s[i]] ELSE s[i]]

NoMatch == [found |-> FALSE, text |-> <<>>]

Match(text) == [found |-> TRUE, text |-> text]

\* The first match of /key"([^"]<q>)"/ in s, for key ending in =, and its
\* group: the first place where key and a quote are followed by a closing
\* quote with at least minLen characters in between (minLen 1 is "+", 0 "*").
QuotedMatch(s, key, minLen) ==
  LET open == key \o <<"\"">>
      hits == {i \in 1..Len(s) :
                 /\ Slice(s, i, i + Len(open) - 1) = open
                 /\ IndexOf(s, <<"\"">>, i + Len(open)) >= i + Len(open) + minLen}
  IN  IF hits = {} THEN NoMatch
      ELSE LET i == CHOOSE h \in hits : \A j \in hits : h <= j
           IN  Match(Slice(s, i + Len(open), IndexOf(s, <<"\"">>, i + Len(open)) - 1))

\* The first match of /Content-Type:\s*([^\r\n]+)/i in s and its group.
\* \s* takes the white space after the colon, line breaks included.  When
\* only white space follows up to the end, the group can hold nothing but
\* blanks, which trim to the empty string: the caller treats that as no match.
ContentTypeMatch(s) ==
  LET key  == <<"c", "o", "n", "t", "e", "n", "t", "-", "t", "y", "p", "e", ":">>
      low  == ToLower(s)
      grp(i) ==
        LET from == i + Len(key)
            ws   == RunLength(Drop(s, from), WhiteSpace)
            rest == Drop(s, from + ws)
            n    == RunLength(rest, {rest[k] : k \in 1..Len(rest)} \ LineTerminators)
        IN  IF n >= 1 THEN Match(Slice(rest, 1, n)) ELSE NoMatch
      hits == {i \in 1..Len(s) : Slice(low, i, i + Len(key) - 1) = key /\ grp(i).found}
  IN  IF hits = {} THEN NoMatch
      ELSE grp(CHOOSE h \in hits : \A j \in hits : h <= j)

NoFile == [found |-> FALSE, filename |-> <<>>, mime |-> <<>>, content |-> BufferOf(<<>>)]

\* One segment of the body: the file it holds, or NoFile when the loop
\* continues past it.
ParsePart(part) ==
  LET headerEnd == IndexOf(part, CRLF \o CRLF, 1)
  IN  IF headerEnd = 0 THEN NoFile
      ELSE
        LET headerStr == Slice(part, 1, headerEnd - 1)
            \* part.slice(headerEnd + 4, part.length - 2)
            chars     == Slice(part, headerEnd + 4, Len(part) - 2)
            nameMatch == QuotedMatch(headerStr, <<"n", "a", "m", "e", "=">>, 1)
            filenameMatch == QuotedMatch(headerStr, <<"f", "i", "l", "e", "n", "a", "m", "e", "=">>, 0)
            mimeMatch == ContentTypeMatch(headerStr)
        IN  IF ~nameMatch.found \/ nameMatch.text # <<"f", "i", "l", "e">> THEN NoFile
            ELSE [found    |-> TRUE,
                  filename |-> IF filenameMatch.found /\ filenameMatch.text # <<>>
                               THEN filenameMatch.text
                               ELSE <<"u", "p", "l", "o", "a", "d">>,
                  mime     |-> IF mimeMatch.found /\ Trim(mimeMatch.text) # <<>>
                               THEN Trim(mimeMatch.text)
                               ELSE MIME_OCTET,
                  content  |-> BufferOf([k \in 1..Len(chars) |-> CharCode(chars[k])])]

\* function parseMultipartSingleFile(bodyBuf, boundary): the first segment
\* between the first and the last piece that holds a file, or NoFile (null).
parseMultipartSingleFile(body, boundary) ==
  LET pieces == Split(body, <<"-", "-">> \o boundary)
      parts  == Slice(pieces, 2, Len(pieces) - 1)
      found  == {i \in 1..Len(parts) : ParsePart(parts[i]).found}
  IN  IF found = {} THEN NoFile
      ELSE ParsePart(parts[CHOOSE i \in found : \A j \in found : i <= j])

\* ct.match(/multipart\/form-data;\s*boundary=(.+)$/i): the boundary, the
\* rest of the header value after the first "boundary=" that follows
\* "multipart/form-data;" and optional white space.
MultipartBoundary(ct) ==
  LET key  == <<"m", "u", "l", "t", "i", "p", "a", "r", "t", "/", "f", "o", "r", "m",
                "-", "d", "a", "t", "a", ";">>
      bkey == <<"b", "o", "u", "n", "d", "a", "r", "y", "=">>
      low  == ToLower(ct)
      grp(i) ==
        LET from == i + Len(key)
            ws   == RunLength(Drop(ct, from), WhiteSpace)
            rest == Drop(ct, from + ws + Len(bkey))
        IN  IF /\ Slice(low, from + ws, from + ws + Len(bkey) - 1) = bkey
               /\ rest # <<>>
               /\ \A k \in 1..Len(rest) : rest[k] \notin LineTerminators
            THEN Match(rest) ELSE NoMatch
      hits == {i \in 1..Len(ct) : Slice(low, i, i + Len(key) - 1) = key /\ grp(i).found}
  IN  IF hits = {} THEN NoMatch
      ELSE grp(CHOOSE h \in hits : \A j \in hits : h <= j)

(***************************************************************************)
(* GET /files/<name>                                                       *)
(***************************************************************************)
HexChars == Digits \cup LowerAF \cup UpperAF

AlnumChars == Digits \cup Lower \cup Upper

\* crypto.randomBytes(16).toString("hex") has this many characters.
ID_HEX_LENGTH == 32

\* /^[a-f0-9]{32}\.[a-z0-9]+$/i.test(filename)
IsStoredFileName(filename) ==
  /\ Len(filename) >= ID_HEX_LENGTH + 2
  /\ \A i \in 1..ID_HEX_LENGTH : filename[i] \in HexChars
  /\ filename[ID_HEX_LENGTH + 1] = "."
  /\ \A i \in (ID_HEX_LENGTH + 2)..Len(filename) : filename[i] \in AlnumChars

\* A handler that serves every file as application/octet-stream.
ContentTypeOfExt_generic(filePath) == MIME_OCTET

\* The content type the retrieval endpoint declares for a file path.
ContentTypeOfExt(filePath) ==
  LET ext == ToLower(extname(filePath))
  IN  IF ext = EXT_JPG \/ ext = EXT_JPEG THEN MIME_JPEG
      ELSE IF ext = EXT_PNG THEN MIME_PNG
      ELSE IF ext = EXT_WEBP THEN MIME_WEBP
      ELSE IF ext = EXT_GIF THEN MIME_GIF
      ELSE MIME_OCTET

\* Removal of "." and ".." segments, as the URL parser does for a path.
RECURSIVE RemoveDotSegments(_, _)
RemoveDotSegments(segs, out) ==
  IF segs = <<>> THEN out
  ELSE LET seg  == Head(segs)
           last == Len(segs) = 1
       IN  IF seg = <<".", ".">>
           THEN RemoveDotSegments(Tail(segs),
                  (IF out = <<>> THEN out ELSE SubSeq(out, 1, Len(out) - 1))
                  \o (IF last THEN << <<>> >> ELSE <<>>))
           ELSE IF seg = <<".">>
           THEN RemoveDotSegments(Tail(segs), out \o (IF last THEN << <<>> >> ELSE <<>>))
           ELSE RemoveDotSegments(Tail(segs), out \o <<seg>>)

RECURSIVE JoinPath(_)
JoinPath(segs) ==
  IF segs = <<>> THEN <<>> ELSE <<"/">> \o Head(segs) \o JoinPath(Tail(segs))

\* new URL(req.url, base).pathname for a request target that starts with
\* "/": the part before "?" with its dot segments removed.
Pathname(reqUrl) ==
  LET q    == IndexOf(reqUrl, <<"?">>, 1)
      path == IF q = 0 THEN reqUrl ELSE SubSeq(reqUrl, 1, q - 1)
      segs == Tail(Split(path, <<"/">>))
  IN  JoinPath(RemoveDotSegments(segs, <<>>))

(***************************************************************************)
(* Replies                                                                 *)
(***************************************************************************)
S_COMPLETED == <<"C", "O", "M", "P", "L", "E", "T", "E", "D">>

S_ERROR == <<"E", "R", "R", "O", "R">>

EmptyString == JsString(<<>>)

\* What one invocation returned, with a record of what it did on the way:
\*   op, arg      the operation and its argument (tool input, request target
\*                or multipart file name)
\*   status, message, url, originalUrl, enhancedUrl
\*                the structuredContent of a tool reply (url is undefined in an
\*                enhance_photo reply, the other two in an upload_image reply
\*                are "" by replyWithResult)
\*   code, ctype, body
\*                status code, content-type header and body of an HTTP response
\*   classified   a locator predicate (isMntPath, isDataUrl, ...) was evaluated
\*   fetches, decodes, writes, posts, fsOps
\*                calls of fetch(url) for the image, of parseDataUrl, of
\*                fsp.writeFile, of fetch(PHOTO_PROXY_URL), and of existsSync
\*                or createReadStream
\*   remote       what the remote host answered to the fetch of the image
\*   sent         the image_url of the body posted to the backend
\*   backend      what the backend answered to that POST
\*   threw        the step whose exception the handler's catch turned into the
\*                reply ("decode", "fetch", "write" or "backend"), "" if none
\*   created      the names of the files the invocation created
\*   stored       the bytes handed to saveUploadBuffer
\*   request      the content-type header and the body of a request POST /upload
NoResponse == [kind |-> "none", status |-> 0, ct |-> JsNull, body |-> BufferOf(<<>>), bodyOk |-> FALSE]

NoBackend ==
  [kind |-> "none", status |-> 0, json |-> FALSE, isNull |-> FALSE, hasData |-> FALSE,
   dstatus |-> JsUndefined, original_url |-> JsUndefined, enhanced_url |-> JsUndefined,
   error |-> JsUndefined]

NoReply ==
  [op |-> "none", arg |-> JsUndefined,
   status |-> JsUndefined, message |-> "", url |-> JsUndefined,
   originalUrl |-> JsUndefined, enhancedUrl |-> JsUndefined,
   code |-> 0, ctype |-> <<>>, body |-> BufferOf(<<>>),
   classified |-> FALSE, fetches |-> 0, decodes |-> 0, writes |-> 0, posts |-> 0,
   fsOps |-> 0, remote |-> NoResponse, sent |-> JsUndefined, backend |-> NoBackend,
   threw |-> "", created |-> {}, stored |-> BufferOf(<<>>),
   request |-> [ct |-> JsUndefined, body |-> <<>>]]

\* replyWithResult({ originalUrl, enhancedUrl, status, message, extra })
replyWithResult(r, originalUrl, enhancedUrl, status, message, url) ==
  [r EXCEPT !.originalUrl = Nullish(originalUrl, EmptyString),
            !.enhancedUrl = Nullish(enhancedUrl, EmptyString),
            !.status = Nullish(status, EmptyString),
            !.message = message,
            !.url = url]

\* The ERROR replies of upload_image: extra: { url: "" }.
UploadError(r, message) ==
  replyWithResult(r, JsUndefined, JsUndefined, JsString(S_ERROR), message, EmptyString)

\* The ERROR replies of enhance_photo: originalUrl: "", enhancedUrl: "".
EnhanceError(r, message) ==
  replyWithResult(r, EmptyString, EmptyString, JsString(S_ERROR), message, JsUndefined)

(***************************************************************************)
(* fetchAndStoreImage up to its call of saveUploadBuffer                   *)
(***************************************************************************)
\* What fetch(url) and resp.arrayBuffer() give: the request fails (kind
\* "reject"), or a response with a status, a content-type header (null when
\* the header is missing) and a body whose read succeeds or fails.
RemoteResponse(kind, status, ct, body, bodyOk) ==
  [kind |-> kind, status |-> status, ct |-> ct, body |-> body, bodyOk |-> bodyOk]

\* Response.ok
IsOkStatus(status) == status \in 200..299

Fetched(buf, mime) == [ok |-> TRUE, error |-> "", buf |-> buf, mime |-> mime]

FetchError(msg) == [ok |-> FALSE, error |-> msg, buf |-> BufferOf(<<>>), mime |-> <<>>]

\* fetchAndStoreImage without its test of the content-type header.
fetchImage_any_type(resp) ==
  IF resp.kind = "reject" THEN FetchError("fetch failed")
  ELSE IF ~IsOkStatus(resp.status)
  THEN FetchError("Failed to fetch image: ${resp.status} ${resp.statusText}")
  ELSE IF ~resp.bodyOk THEN FetchError("terminated")
  ELSE Fetched(resp.body, Trim(Head(Split(OrElse(resp.ct, EmptyString).s, <<";">>))))

fetchImage(resp) ==
  IF resp.kind = "reject" THEN FetchError("fetch failed")
  ELSE IF ~IsOkStatus(resp.status)
  THEN FetchError("Failed to fetch image: ${resp.status} ${resp.statusText}")
  ELSE LET ct == OrElse(resp.ct, EmptyString).s
       IN  IF ~StartsWith(ct, S_image)
           THEN FetchError("URL is not an image (content-type: ${ct || 'unknown'})")
           ELSE IF ~resp.bodyOk THEN FetchError("terminated")
           ELSE Fetched(resp.body, Trim(Head(Split(ct, <<";">>))))

(***************************************************************************)
(* callPhotoProxy                                                          *)
(***************************************************************************)
\* What the POST to PHOTO_PROXY_URL gives: the request fails (kind "reject"),
\* or a response with a status and a text.  json says whether JSON.parse
\* accepts the text; isNull that it is the literal null; hasData that the
\* parsed object has a data object, whose status, original_url and
\* enhanced_url follow (undefined when absent); error is the top-level
\* error property.
BackendResponse(kind, status, json, isNull, hasData, dstatus, original, enhanced, error) ==
  [kind |-> kind, status |-> status, json |-> json, isNull |-> isNull,
   hasData |-> hasData, dstatus |-> dstatus, original_url |-> original,
   enhanced_url |-> enhanced, error |-> error]

ProxyResult(status, originalUrl, enhancedUrl) ==
  [ok |-> TRUE, error |-> "", status |-> status,
   originalUrl |-> originalUrl, enhancedUrl |-> enhancedUrl]

ProxyError(msg) ==
  [ok |-> FALSE, error |-> msg, status |-> JsUndefined,
   originalUrl |-> JsUndefined, enhancedUrl |-> JsUndefined]

\* callPhotoProxy taking a text that is not JSON for an empty object.
callPhotoProxy_lenient(bresp) ==
  IF bresp.kind = "reject" THEN ProxyError("fetch failed")
  ELSE IF ~IsOkStatus(bresp.status) THEN ProxyError("Proxy HTTP error: ${resp.status} ${text}")
  ELSE IF bresp.json /\ bresp.isNull
  THEN ProxyError("Cannot read properties of null (reading 'data')")
  ELSE IF ~bresp.json \/ ~bresp.hasData
  THEN ProxyResult(JsString(S_COMPLETED), JsUndefined, JsUndefined)
  ELSE ProxyResult(Nullish(bresp.dstatus, JsString(S_COMPLETED)),
                   bresp.original_url, bresp.enhanced_url)

\* callPhotoProxy without the default of the status.
callPhotoProxy_no_default(bresp) ==
  IF bresp.kind = "reject" THEN ProxyError("fetch failed")
  ELSE IF ~IsOkStatus(bresp.status) THEN ProxyError("Proxy HTTP error: ${resp.status} ${text}")
  ELSE IF ~bresp.json THEN ProxyError("Unexpected token in JSON")
  ELSE IF bresp.isNull THEN ProxyError("Cannot read properties of null (reading 'data')")
  ELSE IF ~bresp.hasData THEN ProxyResult(JsUndefined, JsUndefined, JsUndefined)
  ELSE ProxyResult(bresp.dstatus, bresp.original_url, bresp.enhanced_url)

callPhotoProxy(bresp) ==
  IF bresp.kind = "reject" THEN ProxyError("fetch failed")
  ELSE IF ~IsOkStatus(bresp.status) THEN ProxyError("Proxy HTTP error: ${resp.status} ${text}")
  ELSE IF ~bresp.json THEN ProxyError("Unexpected token in JSON")
  ELSE IF bresp.isNull THEN ProxyError("Cannot read properties of null (reading 'data')")
  ELSE IF ~bresp.hasData THEN ProxyResult(JsString(S_COMPLETED), JsUndefined, JsUndefined)
  ELSE ProxyResult(Nullish(bresp.dstatus, JsString(S_COMPLETED)),
                   bresp.original_url, bresp.enhanced_url)

\* Step 2 of enhance_photo with a retry: a failed call of the backend is
\* made a second time before the reply.
EnhanceWith_retrying(r, publicUrl, bresp) ==
  LET res == callPhotoProxy(bresp)
      r1  == [r EXCEPT !.posts = @ + (IF res.ok THEN 1 ELSE 2),
                       !.sent = JsString(publicUrl), !.backend = bresp]
  IN  IF ~res.ok THEN EnhanceError([r1 EXCEPT !.threw = "backend"], res.error)
      ELSE replyWithResult(r1,
             OrElse(ensureHttpsOrEmpty(res.originalUrl), JsString(publicUrl)),
             ensureHttpsOrEmpty(res.enhancedUrl),
             res.status,
             IF res.status = JsString(S_COMPLETED)
             THEN "Photo enhanced successfully."
             ELSE "Photo enhance status: ${status}",
             JsUndefined)

\* Step 2 of enhance_photo: the call of the backend with publicUrl and the
\* reply made of its result.
EnhanceWith(r, publicUrl, bresp) ==
  LET res == callPhotoProxy(bresp)
      r1  == [r EXCEPT !.posts = @ + 1, !.sent = JsString(publicUrl), !.backend = bresp]
  IN  IF ~res.ok THEN EnhanceError([r1 EXCEPT !.threw = "backend"], res.error)
      ELSE replyWithResult(r1,
             OrElse(ensureHttpsOrEmpty(res.originalUrl), JsString(publicUrl)),
             ensureHttpsOrEmpty(res.enhancedUrl),
             res.status,
             IF res.status = JsString(S_COMPLETED)
             THEN "Photo enhanced successfully."
             ELSE "Photo enhance status: ${status}",
             JsUndefined)

N_stored == <<"s", "t", "o", "r", "e", "d">>

(***************************************************************************)
(* saveUploadBuffer                                                        *)
(***************************************************************************)
\* A file name that leaves the identifier out: only the extension tells two
\* stores apart.
SaveName_without_id(id, mime, originalName) ==
  LET extFromName == extname(originalName)
  IN  N_stored \o (IF extFromName # <<>> THEN extFromName ELSE guessExtFromMime(mime))

\* const ext = extFromName || guessExtFromMime(mime); filename = `${id}${ext}`
SaveName(id, mime, originalName) ==
  LET extFromName == extname(originalName)
  IN  id \o (IF extFromName # <<>> THEN extFromName ELSE guessExtFromMime(mime))

\* A URL without the base: the path alone.
PublicUrl_without_base(filename) == S_files \o filename

\* url: `${PUBLIC_BASE_URL}/files/${filename}`
PublicUrl(filename) == PUBLIC_BASE_URL \o S_files \o filename

N_uploaded == <<"u", "p", "l", "o", "a", "d", "e", "d">>

N_fetched == <<"f", "e", "t", "c", "h", "e", "d">>

N_from_data_url == <<"f", "r", "o", "m", "-", "d", "a", "t", "a", "-", "u", "r", "l">>

\* A handler's run up to its first file operation: it has replied (save
\* FALSE, r the reply), or it has called saveUploadBuffer(buf, mime, name).
Replied(r) == [save |-> FALSE, r |-> r, buf |-> BufferOf(<<>>), mime |-> <<>>, name |-> <<>>]

Saving(r, buf, mime, name) ==
  [save |-> TRUE, r |-> [r EXCEPT !.stored = buf], buf |-> buf, mime |-> mime, name |-> name]

(***************************************************************************)
(* The tool handlers up to their first file operation                      *)
(***************************************************************************)
\* args?.image || "" without the trim().
InputOf_untrimmed(arg) == OrElse(arg, EmptyString).s

\* (args?.image || "").trim()
InputOf(arg) == Trim(OrElse(arg, EmptyString).s)

upload_image(arg, resp) ==
  LET input == InputOf(arg)
      r0 == [NoReply EXCEPT !.op = "upload_image", !.arg = arg]
      r1 == [r0 EXCEPT !.classified = TRUE]
  IN  IF input = <<>>
      THEN Replied(UploadError(r0,
             "No image provided. Provide a data:image/... base64 string or an https image URL."))
      ELSE IF isMntPath(input)
      THEN Replied(UploadError(r1,
             "Cannot access /mnt/data/... on a remote server. Please provide the image as data:image/... base64 or an https URL."))
      ELSE IF isDataUrl(input)
      THEN LET p  == parseDataUrl(input)
               r2 == [r1 EXCEPT !.decodes = @ + 1]
           IN  IF p.ok THEN Saving(r2, p.buf, p.mime, N_uploaded)
               ELSE Replied(UploadError([r2 EXCEPT !.threw = "decode"], p.error))
      ELSE IF isHttpUrl(input)
      THEN LET f  == fetchImage(resp)
               r2 == [r1 EXCEPT !.fetches = @ + 1, !.remote = resp]
           IN  IF f.ok THEN Saving(r2, f.buf, f.mime, N_fetched)
               ELSE Replied(UploadError([r2 EXCEPT !.threw = "fetch"], f.error))
      ELSE Replied(UploadError(r1,
             "Unsupported image format. Use data:image/...;base64,... or https://..."))

enhance_photo(arg, resp, bresp) ==
  LET input == InputOf(arg)
      r0 == [NoReply EXCEPT !.op = "enhance_photo", !.arg = arg]
      r1 == [r0 EXCEPT !.classified = TRUE]
  IN  IF input = <<>>
      THEN Replied(EnhanceError(r0,
             "No image_url provided. If the user uploaded an image, call upload_image first, then call enhance_photo with the returned url."))
      ELSE IF isMntPath(input)
      THEN Replied(EnhanceError(r1,
             "Cannot access /mnt/data/... on a remote server. Call upload_image first to obtain a public https URL."))
      ELSE IF isHttpsUrl(input)
      THEN Replied(EnhanceWith(r1, input, bresp))
      ELSE IF isDataUrl(input)
      THEN LET p  == parseDataUrl(input)
               r2 == [r1 EXCEPT !.decodes = @ + 1]
           IN  IF p.ok THEN Saving(r2, p.buf, p.mime, N_from_data_url)
               ELSE Replied(EnhanceError([r2 EXCEPT !.threw = "decode"], p.error))
      ELSE IF isHttpUrl(input)
      THEN LET f  == fetchImage(resp)
               r2 == [r1 EXCEPT !.fetches = @ + 1, !.remote = resp]
           IN  IF f.ok THEN Saving(r2, f.buf, f.mime, N_fetched)
               ELSE Replied(EnhanceError([r2 EXCEPT !.threw = "fetch"], f.error))
      ELSE Replied(EnhanceError(r1, "Unsupported input. Use https URL or data:image base64."))

(***************************************************************************)
(* The HTTP endpoints                                                      *)
(***************************************************************************)
T_NotFound == <<"N", "o", "t", " ", "F", "o", "u", "n", "d">>

T_Health == <<"P", "h", "o", "t", "o", " ", "e", "n", "h", "a", "n", "c", "e", "r", " ",
              "s", "e", "r", "v", "e", "r">>

MIME_TEXT == <<"t", "e", "x", "t", "/", "p", "l", "a", "i", "n">>

MIME_JSON == <<"a", "p", "p", "l", "i", "c", "a", "t", "i", "o", "n", "/", "j", "s", "o", "n">>

\* res.writeHead(code, { "content-type": ctype }).end(...)
HttpResponse(r, code, ctype, body, message) ==
  [r EXCEPT !.code = code, !.ctype = ctype, !.body = body, !.message = message]

\* new Set(["image/jpeg", "image/png", "image/webp", "image/gif"])
AllowedMimes == {MIME_JPEG, MIME_PNG, MIME_WEBP, MIME_GIF}

\* POST /upload up to its call of saveUploadBuffer.  ct is the request's
\* content-type header (undefined when missing), body its body.
post_upload(ct, body) ==
  LET r0 == [NoReply EXCEPT !.op = "POST /upload", !.request = [ct |-> ct, body |-> body]]
      m  == MultipartBoundary(OrElse(ct, EmptyString).s)
  IN  IF ~m.found
      THEN Replied(HttpResponse(r0, 400, MIME_JSON, BufferOf(<<>>), "Expected multipart/form-data"))
      ELSE LET file == parseMultipartSingleFile(body, m.text)
               r1   == [r0 EXCEPT !.arg = JsString(file.filename)]
           IN  IF ~file.found
               THEN Replied(HttpResponse(r0, 400, MIME_JSON, BufferOf(<<>>),
                                         "No file field named \"file\""))
               ELSE IF file.mime \notin AllowedMimes
               THEN Replied(HttpResponse(r1, 400, MIME_JSON, BufferOf(<<>>),
                                         "Unsupported mime: ${file.mime}"))
               ELSE Saving(r1, file.content, file.mime, file.filename)

\* The GET handler with existsSync called before the test of the name's shape.
get_probing_first(reqUrl, dir) ==
  LET r0 == [NoReply EXCEPT !.op = "GET", !.arg = JsString(reqUrl)]
      pathname == Pathname(reqUrl)
  IN  IF pathname = <<"/">>
      THEN HttpResponse(r0, 200, MIME_TEXT, TextBody(T_Health), "")
      ELSE IF StartsWith(pathname, S_files)
      THEN LET filename == Drop(pathname, Len(S_files) + 1)
           IN  IF filename \notin DOMAIN dir \/ ~IsStoredFileName(filename)
               THEN HttpResponse([r0 EXCEPT !.fsOps = 1], 404, <<>>, TextBody(T_NotFound), "")
               ELSE HttpResponse([r0 EXCEPT !.fsOps = 2], 200,
                                 ContentTypeOfExt(filename), dir[filename], "")
      ELSE HttpResponse(r0, 404, <<>>, TextBody(T_NotFound), "")

\* A GET request for the target reqUrl, the directory holding dir (a function
\* from file names to contents).
get(reqUrl, dir) ==
  LET r0 == [NoReply EXCEPT !.op = "GET", !.arg = JsString(reqUrl)]
      pathname == Pathname(reqUrl)
  IN  IF pathname = <<"/">>
      THEN HttpResponse(r0, 200, MIME_TEXT, TextBody(T_Health), "")
      ELSE IF StartsWith(pathname, S_files)
      THEN LET filename == Drop(pathname, Len(S_files) + 1)
           IN  IF ~IsStoredFileName(filename)
               THEN HttpResponse(r0, 404, <<>>, TextBody(T_NotFound), "")
               ELSE IF filename \notin DOMAIN dir
               THEN HttpResponse([r0 EXCEPT !.fsOps = 1], 404, <<>>, TextBody(T_NotFound), "")
               ELSE HttpResponse([r0 EXCEPT !.fsOps = 2], 200,
                                 ContentTypeOfExt(filename), dir[filename], "")
      ELSE HttpResponse(r0, 404, <<>>, TextBody(T_NotFound), "")

(***************************************************************************)
(* The environment: what callers send and what the network answers         *)
(***************************************************************************)
S_sandbox == <<"s", "a", "n", "d", "b", "o", "x", ":">>

S_png == <<"p", "n", "g">>

DataUrl(subtype, payload) == S_data_image \o subtype \o S_base64 \o payload

\* The arguments of the tools (args.image, args.image_url).
ToolArgs ==
  { JsUndefined,
    EmptyString,
    JsString(<<" ", "\n", "\t">>),
    JsString(S_mnt_data \o <<"a", ".", "p", "n", "g">>),
    JsString(S_sandbox \o S_mnt_data \o <<"a", ".", "p", "n", "g">>),
    JsString(<<" ">> \o S_https \o <<"h", "/", "a", ".", "j", "p", "g">> \o <<"\n">>),
    JsString(S_http \o <<"h", "/", "a">>),
    JsString(DataUrl(S_png, <<"Q", "U", "J", "D">>)),
    JsString(DataUrl(S_png, <<"Q", "U", "J", "D", "R">>)),
    JsString(DataUrl(S_png, <<"Q", "U", "\n", "J", "D">>)),
    JsString(<<"f", "t", "p", ":", "/", "/", "h", "/", "a">>) }

SmallBody == BufferOf(<<137, 80, 78>>)

EmptyBody == BufferOf(<<>>)

\* A body one byte over the ceiling, given by its length and its first bytes.
HugeBody == [len |-> MAX_BYTES + 1, data |-> <<255, 216>>]

MIME_SVG == <<"i", "m", "a", "g", "e", "/", "s", "v", "g", "+", "x", "m", "l">>

CT_html == <<"t", "e", "x", "t", "/", "h", "t", "m", "l">>

\* What the remote host may answer to the GET of the image.
RemoteResponses ==
  { RemoteResponse("reject", 0, JsNull, EmptyBody, FALSE),
    RemoteResponse("response", 404, JsString(MIME_PNG), SmallBody, TRUE),
    RemoteResponse("response", 200, JsString(CT_html), SmallBody, TRUE),
    RemoteResponse("response", 200, JsNull, SmallBody, TRUE),
    RemoteResponse("response", 200, JsString(MIME_PNG), SmallBody, FALSE),
    RemoteResponse("response", 200, JsString(MIME_PNG), SmallBody, TRUE),
    RemoteResponse("response", 200, JsString(MIME_JPEG \o <<";", " ", "q", "=", "1">>), EmptyBody, TRUE),
    RemoteResponse("response", 200, JsString(MIME_SVG), SmallBody, TRUE),
    RemoteResponse("response", 200, JsString(MIME_WEBP), HugeBody, TRUE) }

U_cdn == S_https \o <<"c", "/", "e">>

U_insecure == S_http \o <<"c", "/", "e">>

\* What the enhancement backend may answer.
BackendResponses ==
  { BackendResponse("reject", 0, FALSE, FALSE, FALSE, JsUndefined, JsUndefined, JsUndefined, JsUndefined),
    BackendResponse("response", 500, TRUE, FALSE, FALSE, JsUndefined, JsUndefined, JsUndefined, JsString(<<"x">>)),
    BackendResponse("response", 200, FALSE, FALSE, FALSE, JsUndefined, JsUndefined, JsUndefined, JsUndefined),
    BackendResponse("response", 200, TRUE, TRUE, FALSE, JsUndefined, JsUndefined, JsUndefined, JsUndefined),
    BackendResponse("response", 200, TRUE, FALSE, FALSE, JsUndefined, JsUndefined, JsUndefined, JsUndefined),
    BackendResponse("response", 200, TRUE, FALSE, FALSE, JsUndefined, JsUndefined, JsUndefined, JsString(<<"x">>)),
    BackendResponse("response", 200, TRUE, FALSE, TRUE, JsString(S_COMPLETED), JsUndefined, JsString(U_cdn), JsUndefined),
    BackendResponse("response", 200, TRUE, FALSE, TRUE, JsString(S_COMPLETED), JsUndefined, JsString(U_cdn), JsString(<<"x">>)),
    BackendResponse("response", 200, TRUE, FALSE, TRUE, JsUndefined, JsString(U_cdn), JsString(U_insecure), JsUndefined),
    BackendResponse("response", 200, TRUE, FALSE, TRUE, JsString(<<"P">>), JsNull,
                    JsString(DataUrl(S_png, <<"Q", "Q">>)), JsUndefined),
    BackendResponse("response", 200, TRUE, FALSE, TRUE, JsString(S_COMPLETED),
                    JsString(S_mnt_data \o <<"a">>), JsArray(U_cdn), JsUndefined) }

\* A multipart body with one part and the closing delimiter, boundary "B".
Boundary == <<"B">>

Delimiter == <<"-", "-">> \o Boundary

MultipartBody(headers, content) ==
  Delimiter \o CRLF \o headers \o CRLF \o CRLF \o content \o CRLF
  \o Delimiter \o <<"-", "-">> \o CRLF

H_disposition == <<"C", "o", "n", "t", "e", "n", "t", "-", "D", "i", "s", "p", "o", "s",
                   "i", "t", "i", "o", "n", ":", " ", "f", "o", "r", "m", "-", "d", "a",
                   "t", "a", ";", " ">>

H_type == CRLF \o <<"C", "o", "n", "t", "e", "n", "t", "-", "T", "y", "p", "e", ":", " ">>

Field(key, value) == key \o <<"=", "\"">> \o value \o <<"\"">>

K_name == <<"n", "a", "m", "e">>

K_filename == <<"f", "i", "l", "e", "n", "a", "m", "e">>

V_file == <<"f", "i", "l", "e">>

FilePart(filename, mime) ==
  H_disposition \o Field(K_name, V_file) \o <<";", " ">> \o Field(K_filename, filename)
  \o H_type \o mime

CT_multipart == <<"m", "u", "l", "t", "i", "p", "a", "r", "t", "/", "f", "o", "r", "m", "-",
                  "d", "a", "t", "a", ";", " ", "b", "o", "u", "n", "d", "a", "r", "y", "=">>
                \o Boundary

\* The requests to POST /upload: content-type header and body, and with
\* them what the body declares: the field name of its part (field) and the
\* media type of the part (mime).
UploadRequest(ct, headers, content, field, mime) ==
  [ct |-> ct, body |-> MultipartBody(headers, content), field |-> field, mime |-> mime]

V_other == <<"o", "t", "h", "e", "r">>

UploadRequests ==
  { UploadRequest(JsUndefined, FilePart(<<"a", ".", "p", "n", "g">>, MIME_PNG),
                  <<"a", "b">>, V_file, MIME_PNG),
    UploadRequest(JsString(CT_multipart), FilePart(<<"a", ".", "P", "N", "G">>, MIME_PNG),
                  <<"a", "b">>, V_file, MIME_PNG),
    UploadRequest(JsString(CT_multipart), FilePart(<<"p", "h", "o", "t", "o", ".">>, MIME_PNG),
                  <<"a", "b">>, V_file, MIME_PNG),
    UploadRequest(JsString(CT_multipart), FilePart(<<"a", ".", "j", "p", "e", "g">>, MIME_JPEG),
                  <<"a", "b">>, V_file, MIME_JPEG),
    UploadRequest(JsString(CT_multipart), FilePart(<<"p", "i", "c">>, MIME_JPEG),
                  <<>>, V_file, MIME_JPEG),
    UploadRequest(JsString(CT_multipart), FilePart(<<"a", ".", "t", "x", "t">>, MIME_TEXT),
                  <<"a", "b">>, V_file, MIME_TEXT),
    UploadRequest(JsString(CT_multipart), H_disposition \o Field(K_name, V_other),
                  <<"a", "b">>, V_other, MIME_OCTET),
    UploadRequest(JsString(CT_multipart),
                  H_disposition \o Field(K_filename, V_file) \o <<";", " ">>
                  \o Field(K_name, V_other) \o H_type \o MIME_GIF,
                  <<"a", "b">>, V_other, MIME_GIF) }

IdDigits == <<"0", "1", "2", "3", "4", "5", "6", "7", "8", "9", "a", "b", "c", "d", "e", "f">>

\* The k-th identifier crypto.randomBytes(16).toString("hex") returns.
IdOf(k) == [i \in 1..ID_HEX_LENGTH |-> IdDigits[((k + i) % 16) + 1]]

\* The request targets of GET requests that name no stored file.
OtherTargets ==
  { <<"/">>,
    <<"/", "x">>,
    S_files \o <<".", ".", "/", "x">>,
    S_files \o <<".", ".", "%", "2", "F", "x">>,
    S_files \o IdOf(0),
    S_files \o IdOf(0) \o <<".">>,
    S_files \o SubSeq(IdOf(0), 1, ID_HEX_LENGTH - 1) \o EXT_PNG,
    S_files \o [i \in 1..ID_HEX_LENGTH |-> "z"] \o EXT_PNG,
    S_files \o [i \in 1..ID_HEX_LENGTH |-> "f"] \o EXT_PNG }

(***************************************************************************)
(* The state                                                               *)
(***************************************************************************)
\* The number of handlers that may be between their call of fsp.writeFile and
\* its completion at the same time.
MaxInFlight == 1

\* The number of identifiers crypto.randomBytes hands out in one behaviour.
MaxStores == 1

VARIABLES
  files,     \* the upload directory: file name -> content
  inflight,  \* the handlers waiting for fsp.writeFile
  nextId,    \* the number of identifiers handed out so far
  saved,     \* the calls of saveUploadBuffer that have returned
  last,      \* the reply or response on its way to its caller, if any
  dec,       \* a call of parseDataUrl followed statement by statement
  ids,       \* the identifiers crypto.randomBytes has returned, in order
  call,      \* a call of one function of the program: arguments and result
  mcp        \* the requests to /mcp: request number -> where its handler is

vars == <<files, inflight, nextId, saved, last, dec, ids, call, mcp>>

\* The requests to /mcp in a behaviour.
MaxRequests == 2

\* A request to /mcp that has not arrived: no server and no transport yet,
\* no listener for the close of the response, the response open with no
\* header sent and no status code.  pairId numbers the pairs in the order
\* of their construction.
NoRequest ==
  [pc |-> "idle", server |-> "none", transport |-> "none", pairId |-> 0,
   listener |-> FALSE, res |-> "open", headersSent |-> FALSE, code |-> 0]

NoRequests == [i \in 1..MaxRequests |-> NoRequest]

\* No function is being called on its own.
NoCall == [fn |-> "none", returned |-> FALSE]

\* The locals of parseDataUrl and the statement it is at (pc); url and reps
\* give the argument: the data URL url with reps groups "AAAA" put in front
\* of its payload, which is how an argument too long to write out is given.
\* decoded says that Buffer.from(b64, "base64") has run.
NotDecoding ==
  [pc |-> "idle", url |-> <<>>, reps |-> 0, mime |-> <<>>, b64 |-> <<>>,
   buf |-> BufferOf(<<>>), error |-> "", decoded |-> FALSE]

Init ==
  /\ files = << >>
  /\ inflight = {}
  /\ nextId = 0
  /\ saved = {}
  /\ last = NoReply
  /\ dec = NotDecoding
  /\ ids = << >>
  /\ call = NoCall
  /\ mcp = NoRequests

\* crypto.randomBytes(16): 128 random bits.  Each call returns an identifier
\* no earlier call returned; which one does not matter, so the k-th call
\* returns IdOf(k).
FreshIds == {IdOf(nextId)}

\* The runs of the handlers up to their first file operation, over all the
\* environment may send and answer.
UploadImageRuns == {upload_image(arg, resp) : arg \in ToolArgs, resp \in RemoteResponses}

EnhancePhotoRuns ==
  {enhance_photo(arg, resp, bresp) :
     arg \in ToolArgs, resp \in RemoteResponses, bresp \in BackendResponses}

PostUploadRuns == {post_upload(req.ct, req.body) : req \in UploadRequests}

\* A handler has run up to plan: it has replied, or it has called
\* saveUploadBuffer, which builds the file name from the identifier id and
\* calls fsp.writeFile.
Run(plan, id) ==
  /\ last = NoReply
  /\ IF plan.save
     THEN /\ nextId < MaxStores
          /\ Cardinality(inflight) < MaxInFlight
          /\ nextId' = nextId + 1
          /\ ids' = Append(ids, id)
          /\ inflight' = inflight \cup
               {[phase |-> "open", filename |-> SaveName(id, plan.mime, plan.name),
                 buf |-> plan.buf, mime |-> plan.mime,
                 r |-> [plan.r EXCEPT !.writes = @ + 1]]}
          /\ UNCHANGED <<files, saved, last, dec, call, mcp>>
     ELSE /\ last' = plan.r
          /\ UNCHANGED <<files, inflight, nextId, saved, dec, ids, call, mcp>>

\* A call of the tool upload_image.
UploadImage(plan, id) == Run(plan, id)

\* A call of the tool enhance_photo.
EnhancePhoto(plan, id) == Run(plan, id)

\* A request POST /upload.
PostUpload(plan, id) == Run(plan, id)

\* The catch of a handler whose saveUploadBuffer rejected with message: the
\* tools reply ERROR, the HTTP handler answers 500.
Caught(r, message) ==
  IF r.op = "upload_image" THEN UploadError([r EXCEPT !.threw = "write"], message)
  ELSE IF r.op = "enhance_photo" THEN EnhanceError([r EXCEPT !.threw = "write"], message)
  ELSE HttpResponse([r EXCEPT !.threw = "write"], 500, <<>>, BufferOf(<<>>),
                    "Internal server error")

\* fsp.writeFile opens the file (flag "w": created, or cut to length 0), or
\* fails to and rejects.
WriteOpen(c, opened) ==
  /\ last = NoReply
  /\ c \in inflight
  /\ c.phase = "open"
  /\ UNCHANGED <<nextId, saved, dec, ids, call, mcp>>
  /\ IF opened
     THEN /\ files' = [f \in DOMAIN files \cup {c.filename} |->
                         IF f = c.filename THEN BufferOf(<<>>) ELSE files[f]]
          /\ inflight' = (inflight \ {c}) \cup
               {[c EXCEPT !.phase = "write", !.r.created = {c.filename}]}
          /\ last' = NoReply
     ELSE /\ last' = Caught(c.r, "EACCES: permission denied, open")
          /\ inflight' = inflight \ {c}
          /\ UNCHANGED files

\* The lengths a file may have when the write of buf fails: any length
\* short of the whole, of which the model takes the half.
PartialLengths(buf) == {buf.len \div 2}

\* The rest of the handler after saveUploadBuffer returned saved.url.
Continue(r, url, bresp) ==
  IF r.op = "upload_image"
  THEN replyWithResult(r, JsUndefined, JsUndefined, JsString(S_COMPLETED), "Uploaded.",
                       JsString(url))
  ELSE IF r.op = "enhance_photo" THEN EnhanceWith(r, url, bresp)
  ELSE [HttpResponse(r, 200, MIME_JSON, BufferOf(<<>>), "") EXCEPT !.url = JsString(url)]

\* The answers of the backend that matter to the handler c belongs to.
BackendResponsesFor(c) ==
  IF c.r.op = "enhance_photo" THEN BackendResponses
  ELSE {CHOOSE b \in BackendResponses : b.kind = "reject"}

\* fsp.writeFile writes the buffer and resolves, and the handler runs to its
\* reply; or the write fails after written bytes and the handler's catch
\* replies, the file staying as it is.
WriteFinish(c, written, bresp) ==
  /\ last = NoReply
  /\ c \in inflight
  /\ c.phase = "write"
  /\ inflight' = inflight \ {c}
  /\ UNCHANGED <<nextId, dec, ids, call, mcp>>
  /\ IF written = c.buf.len
     THEN /\ files' = [files EXCEPT ![c.filename] = c.buf]
          /\ saved' = saved \cup {[filename |-> c.filename, buf |-> c.buf, mime |-> c.mime,
                                   op |-> c.r.op]}
          /\ last' = Continue(c.r, PublicUrl(c.filename), bresp)
     ELSE /\ files' = [files EXCEPT ![c.filename] = BufferPrefix(c.buf, written)]
          /\ last' = Caught(c.r, "ENOSPC: no space left on device, write")
          /\ UNCHANGED saved

\* A request GET reqUrl.
Get(reqUrl) ==
  /\ last = NoReply
  /\ last' = get(reqUrl, files)
  /\ UNCHANGED <<files, inflight, nextId, saved, dec, ids, call, mcp>>

\* The reply or response goes out to its caller.
Deliver ==
  /\ last # NoReply
  /\ last' = NoReply
  /\ UNCHANGED <<files, inflight, nextId, saved, dec, ids, call, mcp>>

\* The targets of the GET requests: the paths of stored files and others.
GetTargets == OtherTargets \cup {S_files \o f : f \in DOMAIN files}

Next ==
  \/ \E plan \in UploadImageRuns, id \in FreshIds : UploadImage(plan, id)
  \/ \E plan \in EnhancePhotoRuns, id \in FreshIds : EnhancePhoto(plan, id)
  \/ \E plan \in PostUploadRuns, id \in FreshIds : PostUpload(plan, id)
  \/ \E c \in inflight, opened \in BOOLEAN : WriteOpen(c, opened)
  \/ \E c \in inflight :
       \E written \in PartialLengths(c.buf) \cup {c.buf.len},
          bresp \in BackendResponsesFor(c) :
         WriteFinish(c, written, bresp)
  \/ \E reqUrl \in GetTargets : Get(reqUrl)
  \/ Deliver

Spec == Init /\ [][Next]_vars

(***************************************************************************)
(* parseDataUrl statement by statement, on arguments of every shape        *)
(***************************************************************************)
\* The longest payload written out in full.
MaxPayloadLen == 4

\* The characters of the payloads: two of the alphabet, the pad, the two of
\* the base64url alphabet, and the four kinds of whitespace.
PayloadChars == {"Q", "U", "=", "-", "_", " ", "\t", "\r", "\n"}

Payloads == UNION {[1..n -> PayloadChars] : n \in 0..MaxPayloadLen}

\* The fewest groups of four characters that decode to more than MAX_BYTES.
HugeGroups == (MAX_BYTES + 2) \div 3

DecodeInit ==
  /\ files = << >>
  /\ inflight = {}
  /\ nextId = 0
  /\ saved = {}
  /\ last = NoReply
  /\ ids = << >>
  /\ call = NoCall
  /\ mcp = NoRequests
  /\ dec \in {[NotDecoding EXCEPT !.pc = "match", !.url = DataUrl(S_png, p), !.reps = g] :
                p \in Payloads, g \in {0, HugeGroups}}

Throw(msg) ==
  /\ dec' = [dec EXCEPT !.pc = "thrown", !.error = msg]
  /\ UNCHANGED <<files, inflight, nextId, saved, last, ids, call, mcp>>

Goto(d) ==
  /\ dec' = d
  /\ UNCHANGED <<files, inflight, nextId, saved, last, ids, call, mcp>>

\* const match = dataUrl.match(...); if (!match) throw ...; const mime = match[1];
DecodeMatch ==
  /\ dec.pc = "match"
  /\ LET start == DataUrlPayloadStart(dec.url)
         raw   == Drop(dec.url, start)
     IN  IF start = 0 \/ \E i \in 1..Len(raw) : raw[i] \in LineTerminators
         THEN Throw("Invalid data URL.")
         ELSE Goto([dec EXCEPT !.pc = "strip", !.b64 = raw,
                      !.mime = SubSeq(dec.url, Len(<<"d", "a", "t", "a", ":">>) + 1,
                                      start - Len(S_base64) - 1)])

\* let b64 = match[2].trim().replace(/\s+/g, ""); b64 = b64.replace(/-/g, "+").replace(/_/g, "/");
\* (the groups in front hold no whitespace, "-" or "_")
DecodeStrip ==
  /\ dec.pc = "strip"
  /\ Goto([dec EXCEPT !.pc = "pad",
             !.b64 = ReplaceAll(ReplaceAll(
                       IF dec.reps = 0 THEN StripWhiteSpace(Trim(dec.b64))
                       ELSE StripWhiteSpace(dec.b64), "-", "+"), "_", "/")])

\* The padding step appending one pad character whatever is missing.
DecodePad_one_pad ==
  /\ dec.pc = "pad"
  /\ LET mod == (4 * dec.reps + Len(dec.b64)) % 4
     IN  IF mod \in {2, 3} THEN Goto([dec EXCEPT !.pc = "test", !.b64 = dec.b64 \o <<"=">>])
         ELSE IF mod = 1 THEN Throw("Invalid base64 (likely truncated).")
         ELSE Goto([dec EXCEPT !.pc = "test"])

\* const mod = b64.length % 4; ... += "==" / += "=" / throw
DecodePad ==
  /\ dec.pc = "pad"
  /\ LET mod == (4 * dec.reps + Len(dec.b64)) % 4
     IN  IF mod = 2 THEN Goto([dec EXCEPT !.pc = "test", !.b64 = dec.b64 \o <<"=", "=">>])
         ELSE IF mod = 3 THEN Goto([dec EXCEPT !.pc = "test", !.b64 = dec.b64 \o <<"=">>])
         ELSE IF mod = 1 THEN Throw("Invalid base64 (likely truncated).")
         ELSE Goto([dec EXCEPT !.pc = "test"])

\* if (!/^[A-Za-z0-9+/]+={0,2}$/.test(b64)) throw ...
DecodeTest ==
  /\ dec.pc = "test"
  /\ LET n   == RunLength(dec.b64, B64Chars)
         pad == Drop(dec.b64, n + 1)
     IN  IF /\ 4 * dec.reps + n >= 1
            /\ Len(pad) <= 2
            /\ \A i \in 1..Len(pad) : pad[i] = "="
         THEN Goto([dec EXCEPT !.pc = "decode"])
         ELSE Throw("Invalid base64 characters.")

\* const buf = Buffer.from(b64, "base64"): each group in front is three bytes 0
DecodeBuffer ==
  /\ dec.pc = "decode"
  /\ LET tail == Base64Decode(dec.b64)
     IN  Goto([dec EXCEPT !.pc = "empty", !.decoded = TRUE,
                 !.buf = IF dec.reps = 0 THEN tail
                         ELSE [len |-> 3 * dec.reps + tail.len, data |-> <<0, 0, 0>>]])

\* if (!buf || buf.length === 0) throw ...
DecodeEmpty ==
  /\ dec.pc = "empty"
  /\ IF dec.buf.len = 0 THEN Throw("Invalid base64: decoded empty.")
     ELSE Goto([dec EXCEPT !.pc = "size"])

\* if (buf.length > MAX_BYTES) throw ...; return { mime, buf };
DecodeSize ==
  /\ dec.pc = "size"
  /\ IF dec.buf.len > MAX_BYTES THEN Throw("Image too large. Please use a smaller image.")
     ELSE Goto([dec EXCEPT !.pc = "done"])

DecodeNext ==
  \/ DecodeMatch
  \/ DecodeStrip
  \/ DecodePad
  \/ DecodeTest
  \/ DecodeBuffer
  \/ DecodeEmpty
  \/ DecodeSize

DecodeSpec == DecodeInit /\ [][DecodeNext]_vars

\* The call has returned or thrown.
DecodeEnded == dec.pc \in {"done", "thrown"}

\* What the call gave, in the form of the results of parseDataUrl.
DecodeResult ==
  IF dec.pc = "done" THEN ParseOk(dec.mime, dec.buf) ELSE ParseError(dec.error)

\* The statements give what the function parseDataUrl of the handlers gives.
DecodeAgrees ==
  (DecodeEnded /\ dec.reps = 0) => DecodeResult = parseDataUrl(dec.url)

(***************************************************************************)
(* Concurrent ingestions with identifiers that may repeat                  *)
(***************************************************************************)
\* The ingestions in progress at a time.
MaxConcurrent == 2

\* The calls of saveUploadBuffer in a behaviour.
MaxWrites == 2

\* crypto.randomBytes(16) returns any 16 bytes: one it returned before, or
\* another.  Which other one does not matter, so the model takes the
\* identifiers returned so far and one more.
RandomIds == {IdOf(k) : k \in 0..Len(ids)}

\* The ingestions that reach saveUploadBuffer: upload_image and POST /upload
\* with all the environment may send and answer.
StorePlans == {plan \in UploadImageRuns \cup PostUploadRuns : plan.save}

\* An ingestion has run up to its call of saveUploadBuffer, which takes the
\* identifier id from crypto.randomBytes, builds the file name and calls
\* fsp.writeFile.
Store(plan, id) ==
  /\ last = NoReply
  /\ plan.save
  /\ Len(ids) < MaxWrites
  /\ Cardinality(inflight) < MaxConcurrent
  /\ nextId' = nextId + 1
  /\ ids' = Append(ids, id)
  /\ inflight' = inflight \cup
       {[phase |-> "open", filename |-> SaveName(id, plan.mime, plan.name),
         buf |-> plan.buf, mime |-> plan.mime,
         r |-> [plan.r EXCEPT !.writes = @ + 1]]}
  /\ UNCHANGED <<files, saved, last, dec, call, mcp>>

StoreNext ==
  \/ \E plan \in StorePlans, id \in RandomIds : Store(plan, id)
  \/ \E c \in inflight, opened \in BOOLEAN : WriteOpen(c, opened)
  \/ \E c \in inflight :
       \E written \in PartialLengths(c.buf) \cup {c.buf.len},
          bresp \in BackendResponsesFor(c) :
         WriteFinish(c, written, bresp)
  \/ Deliver

StoreSpec == Init /\ [][StoreNext]_vars

(***************************************************************************)
(* The functions of the program called on their own                        *)
(***************************************************************************)
\* The longest content of a part.
MaxContentLen == 3

\* The parts of a body.
MaxParts == 2

\* The bytes of a part's content: a letter, the bytes of the line break and
\* of the delimiter's dashes, and a byte above 0x7F.
ContentBytes == {97, 13, 10, 45, 255}

\* The contents of a part: all the short ones, and one that holds a high
\* byte and the bytes of a blank line.
Contents ==
  UNION {[1..n -> ContentBytes] : n \in 0..MaxContentLen}
  \cup {<<255, 13, 10, 13, 10, 97>>}

\* The parameters of a part's Content-Disposition header besides name.
OtherAttrs ==
  { [k |-> K_filename, v |-> V_file],
    [k |-> K_filename, v |-> <<"a", ".", "p", "n", "g">>],
    [k |-> <<"x">> \o K_name, v |-> V_file] }

\* The parameter lists of a Content-Disposition header: one parameter name,
\* with the value file or another, and up to two of the other parameters,
\* with different keys, in any order.
AttrLists ==
  LET names == {[k |-> K_name, v |-> v] : v \in {V_file, V_other}}
      lists == UNION {[1..n -> names \cup OtherAttrs] : n \in 1..3}
  IN  {l \in lists :
         /\ \A i \in DOMAIN l : \A j \in DOMAIN l : i # j => l[i].k # l[j].k
         /\ \E i \in DOMAIN l : l[i].k = K_name}

\* The header lines of a part with the parameters attrs and media type mime.
RECURSIVE JoinAttrs(_)
JoinAttrs(attrs) ==
  IF attrs = << >> THEN << >>
  ELSE Field(attrs[1].k, attrs[1].v)
       \o (IF Len(attrs) > 1 THEN <<";", " ">> ELSE << >>)
       \o JoinAttrs(Tail(attrs))

PartHeaders(attrs, mime) == H_disposition \o JoinAttrs(attrs) \o H_type \o mime

\* bodyBuf.toString("binary") on the bytes of a content: one character per
\* byte, the character of the byte's code.
BinaryString(bytes) ==
  [i \in 1..Len(bytes) |->
     IF bytes[i] = 9 THEN "\t" ELSE IF bytes[i] = 10 THEN "\n"
     ELSE IF bytes[i] = 13 THEN "\r" ELSE IF bytes[i] = 255 THEN CH_FF
     ELSE Ascii[bytes[i] - 31]]

\* The body made of the parts ps, each [attrs, mime, content], and the
\* closing delimiter.
RECURSIVE PartsBody(_)
PartsBody(ps) ==
  IF ps = << >> THEN Delimiter \o <<"-", "-">> \o CRLF
  ELSE Delimiter \o CRLF \o PartHeaders(ps[1].attrs, ps[1].mime) \o CRLF \o CRLF
       \o BinaryString(ps[1].content) \o CRLF \o PartsBody(Tail(ps))

\* The bodies parseMultipartSingleFile is called with: one part with every
\* parameter list and every content, and more parts of fixed content.
OnePart == {<<[attrs |-> a, mime |-> MIME_PNG, content |-> c]>> :
              a \in AttrLists, c \in Contents}

FewAttrLists ==
  {l \in AttrLists : Len(l) = 1 \/ (Len(l) = 2 /\ l[1].k = K_filename /\ l[1].v = V_file)}

MoreParts ==
  UNION {[1..n -> {[attrs |-> a, mime |-> m, content |-> <<97>>] :
                     a \in FewAttrLists, m \in {MIME_PNG, MIME_GIF}}] : n \in 2..MaxParts}

MultipartCalls ==
  {[fn |-> "parseMultipartSingleFile", returned |-> FALSE, parts |-> ps, file |-> NoFile] :
     ps \in OnePart \cup MoreParts}

\* parseMultipartSingleFile(body, boundary) is called and returns.
CallParseMultipart ==
  /\ call.fn = "parseMultipartSingleFile"
  /\ ~call.returned
  /\ call' = [call EXCEPT !.returned = TRUE,
                          !.file = parseMultipartSingleFile(PartsBody(call.parts), Boundary)]
  /\ UNCHANGED <<files, inflight, nextId, saved, last, dec, ids, mcp>>

\* The name hints saveUploadBuffer is called with, each with the extension
\* path.extname finds in it: those of the tools, which have none, and file
\* names of uploads.
NameHints ==
  { [name |-> N_uploaded, ext |-> <<>>],
    [name |-> N_fetched, ext |-> <<>>],
    [name |-> N_from_data_url, ext |-> <<>>],
    [name |-> <<"u", "p", "l", "o", "a", "d">>, ext |-> <<>>],
    [name |-> <<"a", ".", "p", "n", "g">>, ext |-> EXT_PNG],
    [name |-> <<"a", ".", "J", "P", "G">>, ext |-> <<".", "J", "P", "G">>],
    [name |-> <<"a", ".", "t", "a", "r", ".", "g", "z">>, ext |-> <<".", "g", "z">>],
    [name |-> <<"d", ".", "d", "/", "p", "i", "c">>, ext |-> <<>>],
    [name |-> <<".", "h", "i", "d", "d", "e", "n">>, ext |-> <<>>],
    [name |-> <<"p", "h", "o", "t", "o", ".">>, ext |-> <<".">>] }

\* The media types saveUploadBuffer is called with.
MediaTypes ==
  { MIME_JPEG, MIME_PNG, MIME_WEBP, MIME_GIF, MIME_OCTET, MIME_TEXT,
    <<"I", "M", "A", "G", "E", "/", "P", "N", "G">>,
    <<"i", "m", "a", "g", "e", "/", "j", "p", "g">>,
    MIME_SVG, <<>> }

SaveCalls ==
  {[fn |-> "saveUploadBuffer", returned |-> FALSE, mime |-> m, hint |-> h, filename |-> <<>>] :
     m \in MediaTypes, h \in NameHints}

\* saveUploadBuffer(buf, mime, originalName) is called and builds its file
\* name.
CallSaveUploadBuffer ==
  /\ call.fn = "saveUploadBuffer"
  /\ ~call.returned
  /\ call' = [call EXCEPT !.returned = TRUE,
                          !.filename = SaveName(IdOf(0), call.mime, call.hint.name)]
  /\ UNCHANGED <<files, inflight, nextId, saved, last, dec, ids, mcp>>

\* The trimmed inputs the handlers classify: each prefix the predicates look
\* for, whole, cut short, in capitals, after another prefix, and none.
Locators ==
  { <<>>,
    S_https \o <<"h", "/", "a">>,
    S_https,
    <<"h", "t", "t", "p", "s", ":", "/", "h">>,
    <<"H", "T", "T", "P", "S", ":", "/", "/", "h">>,
    S_http \o <<"h", "/", "a">>,
    S_http \o S_mnt_data \o <<"a">>,
    S_http \o DataUrl(S_png, <<"Q", "U", "J", "D">>),
    DataUrl(S_png, <<"Q", "U", "J", "D">>),
    DataUrl(S_png, <<>>),
    DataUrl(<<>>, <<"Q", "U", "J", "D">>),
    DataUrl(S_png, S_https \o <<"h">>),
    <<"d", "a", "t", "a", ":", "t", "e", "x", "t", "/", "p", "l", "a", "i", "n", ";">>
      \o S_base64 \o <<"Q", "U", "J", "D">>,
    S_mnt_data \o <<"a", ".", "p", "n", "g">>,
    S_mnt_data,
    <<"/", "m", "n", "t", "/", "d", "a", "t", "a">>,
    S_mnt_data \o S_https \o <<"h">>,
    S_sandbox \o S_mnt_data \o <<"a", ".", "p", "n", "g">>,
    <<"f", "t", "p", ":", "/", "/", "h", "/", "a">>,
    <<"a", ".", "p", "n", "g">> }

\* The branch a handler took, read from what it did and said: it posted the
\* input as it was (https), fetched it (fetch), decoded it (inline), said
\* the local path cannot be reached (local), said that the input is missing
\* (missing), or that it is not supported (unsupported).
BranchTaken(plan) ==
  IF plan.r.decodes > 0 THEN "inline"
  ELSE IF plan.r.fetches > 0 THEN "fetch"
  ELSE IF plan.r.posts > 0 THEN "https"
  ELSE IF ~plan.r.classified THEN "missing"
  ELSE IF plan.r.message \in
            {"Cannot access /mnt/data/... on a remote server. Please provide the image as data:image/... base64 or an https URL.",
             "Cannot access /mnt/data/... on a remote server. Call upload_image first to obtain a public https URL."}
  THEN "local"
  ELSE "unsupported"

ClassifyCalls ==
  {[fn |-> "classify", returned |-> FALSE, input |-> l, upload |-> "", enhance |-> ""] :
     l \in Locators}

\* upload_image and enhance_photo are both called with the input, a remote
\* host and a backend that answer well, and take their branches.
CallClassify ==
  /\ call.fn = "classify"
  /\ ~call.returned
  /\ \E resp \in {r \in RemoteResponses : fetchImage(r).ok},
        bresp \in {b \in BackendResponses : callPhotoProxy(b).ok} :
       call' = [call EXCEPT
                  !.returned = TRUE,
                  !.upload = BranchTaken(upload_image(JsString(call.input), resp)),
                  !.enhance = BranchTaken(enhance_photo(JsString(call.input), resp, bresp))]
  /\ UNCHANGED <<files, inflight, nextId, saved, last, dec, ids, mcp>>

\* The calls the functions are given one at a time.
Calls == MultipartCalls \cup SaveCalls \cup ClassifyCalls

CallInit ==
  /\ files = << >>
  /\ inflight = {}
  /\ nextId = 0
  /\ saved = {}
  /\ last = NoReply
  /\ dec = NotDecoding
  /\ ids = << >>
  /\ call \in Calls
  /\ mcp = NoRequests

CallNext ==
  \/ CallParseMultipart
  \/ CallSaveUploadBuffer
  \/ CallClassify

CallSpec == CallInit /\ [][CallNext]_vars

(***************************************************************************)
(* The claims of the specification, over the reply on its way to its       *)
(* caller (last) and the upload directory (files)                          *)
(***************************************************************************)
\* C1: ingestion via upload_image is atomic.  When upload_image replies with
\* status ERROR it has written no file (the upload directory has no file the
\* invocation created); when it replies COMPLETED it has written exactly one
\* new file, and that file holds the complete validated bytes.
C1_UploadImageIsAtomic ==
  last.op = "upload_image" =>
    /\ last.status = JsString(S_ERROR) => last.created = {}
    /\ last.status = JsString(S_COMPLETED) =>
         \E f \in DOMAIN files :
           /\ last.created = {f}
           /\ last.url = JsString(PublicUrl(f))
           /\ files[f] = last.stored

\* C2: whenever enhance_photo calls the backend for an input that is an http
\* or https URL, it has fetched the image and stored a copy first, and the
\* image_url it sends is <PUBLIC_BASE_URL>/files/<id><ext> of that copy, never
\* the caller's URL.
C2_EnhanceAlwaysRehosts ==
  (last.op = "enhance_photo" /\ isHttpUrl(InputOf(last.arg)) /\ last.posts = 1) =>
    /\ last.fetches = 1
    /\ last.writes = 1
    /\ \E s \in saved :
         /\ last.created = {s.filename}
         /\ \E k \in 0..MaxStores : StartsWith(s.filename, IdOf(k))
         /\ last.sent = JsString(PublicUrl(s.filename))
    /\ last.sent # JsString(InputOf(last.arg))

\* C3: in every reply of enhance_photo, originalUrl and enhancedUrl are each
\* the empty string or a string that starts with https://.
C3_OnlyHttpsOrEmptyLeaves ==
  last.op = "enhance_photo" =>
    \A v \in {last.originalUrl, last.enhancedUrl} :
      /\ v.t = "string"
      /\ v.s = <<>> \/ StartsWith(v.s, S_https)

\* C4: a GET /files/<name> whose name fails the shape check is answered 404
\* and performs no filesystem operation (no existsSync, no read).  The shape
\* check is the retrieval pattern, 32 hex digits, a dot and one or more
\* alphanumerics; the names of the claim's examples (a name with ../, with an
\* encoded slash, with a non-hex identifier, with a 31-digit identifier) are
\* listed on their own, so that they are held to the claim whatever the model
\* of the pattern says of them.
C4_BadShapeIsNotFoundWithoutLookup ==
  LET target   == last.arg.s
      pathname == Pathname(target)
      badShape == /\ StartsWith(pathname, S_files)
                  /\ ~IsStoredFileName(Drop(pathname, Len(S_files) + 1))
      examples == { S_files \o <<".", ".", "/", "x">>,
                    S_files \o <<".", ".", "%", "2", "F", "x">>,
                    S_files \o [i \in 1..32 |-> "z"] \o EXT_PNG,
                    S_files \o SubSeq(IdOf(0), 1, 31) \o EXT_PNG,
                    S_files \o IdOf(0),
                    S_files \o IdOf(0) \o <<".">> }
  IN  (last.op = "GET" /\ (badShape \/ target \in examples)) =>
        /\ last.code = 404
        /\ last.body = TextBody(T_NotFound)
        /\ last.fsOps = 0

\* C4's case: a file is stored, and a GET whose name holds an encoded ../ has
\* been answered.
C4_Witness ==
  /\ last.op = "GET"
  /\ last.arg = JsString(S_files \o <<".", ".", "%", "2", "F", "x">>)
  /\ last.code = 404
  /\ files # << >>

\* C5: round trip.  Once saveUploadBuffer has stored the bytes B with media
\* type image/png, every GET of the path of the public URL it returned is
\* answered 200 with the body B.
C5_PngRoundTrip ==
  \A s \in saved :
    (s.mime = MIME_PNG /\ last.op = "GET"
       /\ last.arg = JsString(Drop(PublicUrl(s.filename), Len(PUBLIC_BASE_URL) + 1))) =>
      /\ last.code = 200
      /\ last.body = s.buf

\* C6: every file an ingestion path has stored has a name that passes the
\* shape check of the retrieval endpoint, so a GET of its public URL is never
\* answered 404.
C6_StoredNamesAreRetrievable ==
  \A s \in saved :
    /\ IsStoredFileName(s.filename)
    /\ (last.op = "GET" /\ last.arg = JsString(S_files \o s.filename)) => last.code # 404

\* C7: an input that is a local staged path, /mnt/data/... with or without
\* the marker sandbox: before it, makes upload_image and enhance_photo reply
\* ERROR with the message that the local path cannot be reached and that asks
\* for a fetchable locator, and the invocation does no remote fetch, no file
\* write and no call of the backend.
C7_LocalPathFailsFast ==
  LET input   == Trim(OrElse(last.arg, EmptyString).s)
      bare    == IF StartsWith(input, S_sandbox) THEN Drop(input, Len(S_sandbox) + 1)
                 ELSE input
      message == IF last.op = "upload_image"
                 THEN "Cannot access /mnt/data/... on a remote server. Please provide the image as data:image/... base64 or an https URL."
                 ELSE "Cannot access /mnt/data/... on a remote server. Call upload_image first to obtain a public https URL."
  IN  (last.op \in {"upload_image", "enhance_photo"} /\ StartsWith(bare, S_mnt_data)) =>
        /\ last.status = JsString(S_ERROR)
        /\ last.message = message
        /\ last.fetches = 0
        /\ last.writes = 0
        /\ last.posts = 0
        /\ last.created = {}

\* C8: an input that is absent, empty or made of whitespace only makes
\* upload_image and enhance_photo reply ERROR with the missing-input message
\* before any classification predicate is evaluated, with no fetch, no
\* decode, no file write and no call of the backend.
C8_MissingInputShortCircuits ==
  LET blank   == \/ last.arg = JsUndefined
                 \/ /\ last.arg.t = "string"
                    /\ \A i \in 1..Len(last.arg.s) : last.arg.s[i] \in {" ", "\t", "\n", "\r"}
      message == IF last.op = "upload_image"
                 THEN "No image provided. Provide a data:image/... base64 string or an https image URL."
                 ELSE "No image_url provided. If the user uploaded an image, call upload_image first, then call enhance_photo with the returned url."
  IN  (last.op \in {"upload_image", "enhance_photo"} /\ blank) =>
        /\ last.status = JsString(S_ERROR)
        /\ last.message = message
        /\ ~last.classified
        /\ last.fetches = 0
        /\ last.decodes = 0
        /\ last.writes = 0
        /\ last.posts = 0
        /\ last.created = {}

\* C8's case: enhance_photo has replied to an input of whitespace only.
C8_Witness ==
  /\ last.op = "enhance_photo"
  /\ last.arg = JsString(<<" ", "\n", "\t">>)
  /\ last.status = JsString(S_ERROR)

\* C9: every artifact of the upload directory, stored by the inline decode,
\* by the remote fetch or by POST /upload, has more than 0 bytes and at most
\* MAX_BYTES; an empty or oversized body is rejected and nothing is stored.
C9_StoredSizesWithinCeiling ==
  \A s \in saved :
    /\ s.filename \in DOMAIN files
    /\ files[s.filename].len > 0
    /\ files[s.filename].len <= MAX_BYTES

\* C10: when the fetch of an http(s) input is answered with a status outside
\* 200..299, or with a 2xx status and a content-type that does not start with
\* image/ (a missing header included), the invocation replies ERROR, with the
\* fetch-failed message in the first case and the not-an-image message in the
\* second, the body is not stored and the invocation creates no file.
C10_BadFetchStoresNothing ==
  LET resp     == last.remote
      ct       == IF resp.ct.t = "string" THEN resp.ct.s ELSE <<>>
      badCode  == resp.status < 200 \/ resp.status > 299
      notImage == ~badCode /\ ~StartsWith(ct, S_image)
  IN  (last.fetches = 1 /\ resp.kind = "response" /\ (badCode \/ notImage)) =>
        /\ last.status = JsString(S_ERROR)
        /\ badCode => last.message = "Failed to fetch image: ${resp.status} ${resp.statusText}"
        /\ notImage => last.message = "URL is not an image (content-type: ${ct || 'unknown'})"
        /\ last.writes = 0
        /\ last.posts = 0
        /\ last.created = {}

\* C10's case: upload_image has replied to an input whose fetch was answered
\* 200 with the content-type text/html.
C10_Witness ==
  /\ last.op = "upload_image"
  /\ last.fetches = 1
  /\ last.remote.status = 200
  /\ last.remote.ct = JsString(CT_html)
  /\ last.status = JsString(S_ERROR)

\* The payload of the argument of the call of parseDataUrl being followed.
DecodePayload == Drop(dec.url, Len(DataUrl(S_png, <<>>)) + 1)

\* A validly padded base64 text: a multiple of four characters, those of the
\* alphabet followed by at most two pad characters.
ValidlyPadded(p) ==
  /\ Len(p) >= 4
  /\ Len(p) % 4 = 0
  /\ \E pads \in 0..2 :
       /\ \A i \in 1..(Len(p) - pads) : p[i] \in B64Chars
       /\ \A i \in (Len(p) - pads + 1)..Len(p) : p[i] = "="

\* C11 as stated: for every validly padded payload P under the ceiling,
\* parseDataUrl succeeds on data:image/png;base64,P and fails with the
\* truncated-payload error on the same data URL without the last character
\* of P.
C11_TruncatedByOneFails ==
  (DecodeEnded /\ dec.reps = 0 /\ ValidlyPadded(DecodePayload)) =>
    /\ dec.pc = "done"
    /\ LET shorter == SubSeq(DecodePayload, 1, Len(DecodePayload) - 1)
       IN  parseDataUrl(DataUrl(S_png, shorter)) =
             ParseError("Invalid base64 (likely truncated).")

\* C11 amended: for every validly padded payload P under the ceiling,
\* parseDataUrl succeeds on data:image/png;base64,P with the media type
\* image/png; without the last character of P the payload has a length of 3
\* modulo 4, gets one pad character and is decoded too.  The truncated-payload
\* error is thrown exactly for the payloads that match the data URL pattern
\* and whose length without whitespace is 1 modulo 4.
C11_TruncatedIffOneModFour ==
  /\ (DecodeEnded /\ dec.reps = 0 /\ ValidlyPadded(DecodePayload)) =>
       /\ dec.pc = "done"
       /\ dec.mime = MIME_PNG
       /\ dec.buf.len >= 1
       /\ LET shorter == SubSeq(DecodePayload, 1, Len(DecodePayload) - 1)
          IN  /\ Len(shorter) % 4 = 3
              /\ parseDataUrl(DataUrl(S_png, shorter)).ok
  /\ DecodeEnded =>
       LET matched == \A i \in 1..Len(DecodePayload) : DecodePayload[i] \notin {"\n", "\r"}
           chars   == Cardinality({i \in 1..Len(DecodePayload) :
                                     DecodePayload[i] \notin {" ", "\t", "\n", "\r"}})
       IN  (dec.error = "Invalid base64 (likely truncated).") <=> (matched /\ chars % 4 = 1)

\* C11's case: the call on a validly padded payload has returned.
C11_Witness ==
  /\ dec.pc = "done"
  /\ dec.reps = 0
  /\ DecodePayload = <<"Q", "U", "U", "=">>

\* C12: decoding an inline payload with spaces, tabs, carriage returns or
\* line feeds inserted at any positions gives the same media type and the
\* same bytes as decoding it without them; a line-wrapped payload is never
\* rejected because of its line breaks.  (The handlers trim their input, so
\* the arguments are the trimmed ones.)
C12_WhitespaceIsIgnored ==
  LET bare == SelectSeq(DecodePayload, LAMBDA c : c \notin {" ", "\t", "\r", "\n"})
  IN  (DecodeEnded /\ dec.reps = 0 /\ dec.url = Trim(dec.url)) =>
        DecodeResult = parseDataUrl(DataUrl(S_png, bare))

\* C13: after whitespace removal and alphabet normalization (- to +, _ to /),
\* a payload of length 2 modulo 4 gets exactly two pad characters appended,
\* one of length 3 modulo 4 exactly one, one of length 0 modulo 4 none, and
\* one of length 1 modulo 4 fails with the truncated-payload error; the text
\* is not adjusted in any other way, up to the return.
C13_PaddingByRemainder ==
  LET bare     == SelectSeq(DecodePayload, LAMBDA c : c \notin {" ", "\t", "\r", "\n"})
      norm     == [i \in 1..Len(bare) |->
                     IF bare[i] = "-" THEN "+" ELSE IF bare[i] = "_" THEN "/" ELSE bare[i]]
      mod      == (4 * dec.reps + Len(norm)) % 4
      matched  == dec.pc \notin {"match", "strip", "pad"}
                  /\ dec.error # "Invalid data URL."
  IN  matched =>
        /\ mod = 0 => dec.b64 = norm /\ dec.error # "Invalid base64 (likely truncated)."
        /\ mod = 2 => dec.b64 = norm \o <<"=", "=">>
        /\ mod = 3 => dec.b64 = norm \o <<"=">>
        /\ mod = 1 => dec.pc = "thrown" /\ dec.error = "Invalid base64 (likely truncated)."

\* C13's case: a payload of two characters, one of them of the base64url
\* alphabet, has been padded.
C13_Witness ==
  /\ dec.pc = "test"
  /\ DecodePayload = <<"Q", " ", "_">>
  /\ dec.b64 = <<"Q", "/", "=", "=">>

\* The length of the longest base64 text that encodes MAX_BYTES bytes.
EncodedCeiling == 4 * ((MAX_BYTES + 2) \div 3)

\* C14: the inline decoder checks the ceiling on the length of the encoded
\* payload before Buffer.from runs and on the length of the decoded bytes
\* after it: a payload longer than any encoding of MAX_BYTES bytes is never
\* decoded into a buffer and is rejected, as too large when it is well formed,
\* and what the decoder returns has at most MAX_BYTES bytes.
C14_CeilingBeforeDecode ==
  LET chars    == Cardinality({i \in 1..Len(DecodePayload) :
                                 DecodePayload[i] \notin {" ", "\t", "\r", "\n"}})
      oversize == 4 * dec.reps + chars > EncodedCeiling
  IN  /\ oversize => ~dec.decoded
      /\ (oversize /\ DecodeEnded) =>
           dec.error \in {"Invalid data URL.", "Invalid base64 (likely truncated).",
                          "Invalid base64 characters.",
                          "Image too large. Please use a smaller image."}
      /\ dec.pc = "done" => dec.buf.len <= MAX_BYTES

\* The backend answered 2xx with a JSON text other than null.
BackendAnsweredJson ==
  /\ last.op = "enhance_photo"
  /\ last.posts = 1
  /\ last.backend.kind = "response"
  /\ last.backend.status \in 200..299
  /\ last.backend.json
  /\ ~last.backend.isNull

\* C15: when the backend answers 2xx with a JSON body that has a top-level
\* error field, enhance_photo replies with status ERROR, never COMPLETED, and
\* with the message of the error the handler caught for the backend call,
\* whether or not the body also has a data object or a status.
C15_ErrorFieldWins ==
  (BackendAnsweredJson /\ last.backend.error.t = "string") =>
    /\ last.status = JsString(S_ERROR)
    /\ last.threw = "backend"
    /\ last.message # ""
    /\ last.message # "Photo enhanced successfully."

\* C16: when the backend answers 2xx with a body that is not valid JSON,
\* enhance_photo replies ERROR with originalUrl and enhancedUrl empty: the
\* exception of JSON.parse is caught in the handler and becomes the reply.
C16_NonJsonIsErrorReply ==
  (last.op = "enhance_photo" /\ last.posts = 1 /\ last.backend.kind = "response"
     /\ last.backend.status \in 200..299 /\ ~last.backend.json) =>
    /\ last.status = JsString(S_ERROR)
    /\ last.originalUrl = EmptyString
    /\ last.enhancedUrl = EmptyString
    /\ last.threw = "backend"
    /\ last.message # ""

\* C16's case: enhance_photo has replied after a 200 answer that is not JSON.
C16_Witness ==
  /\ last.op = "enhance_photo"
  /\ last.posts = 1
  /\ last.backend.status = 200
  /\ ~last.backend.json
  /\ last.status = JsString(S_ERROR)

\* The backend answered 2xx with a JSON object without an error field.
BackendSucceeded == BackendAnsweredJson /\ last.backend.error = JsUndefined

\* C17 as stated: for a successful backend response the status of the reply
\* is data.status when present and COMPLETED when absent, and originalUrl and
\* enhancedUrl are each the empty string when the backend omits original_url,
\* enhanced_url respectively.
C17_DefaultsAreEmpty ==
  BackendSucceeded =>
    /\ last.status = IF last.backend.dstatus \in {JsUndefined, JsNull}
                     THEN JsString(S_COMPLETED) ELSE last.backend.dstatus
    /\ last.backend.original_url = JsUndefined => last.originalUrl = EmptyString
    /\ last.backend.enhanced_url = JsUndefined => last.enhancedUrl = EmptyString

\* C17 amended: for a successful backend response the status of the reply is
\* data.status when present and COMPLETED when absent; enhancedUrl is the
\* empty string when the backend omits enhanced_url; originalUrl is the
\* locator that was sent to the backend as image_url when the backend omits
\* original_url.
C17_OriginalDefaultsToSent ==
  BackendSucceeded =>
    /\ last.status = IF last.backend.dstatus \in {JsUndefined, JsNull}
                     THEN JsString(S_COMPLETED) ELSE last.backend.dstatus
    /\ last.backend.original_url = JsUndefined =>
         /\ last.originalUrl = last.sent
         /\ last.originalUrl # EmptyString
    /\ last.backend.enhanced_url = JsUndefined => last.enhancedUrl = EmptyString

\* C17's case: the backend answered with an object without data, and the
\* reply has the three defaults.
C17_Witness ==
  /\ BackendSucceeded
  /\ ~last.backend.hasData
  /\ last.status = JsString(S_COMPLETED)
  /\ last.originalUrl = last.sent
  /\ last.enhancedUrl = EmptyString

\* The structured reply of a tool: status and message, originalUrl and
\* enhancedUrl, and for upload_image url, none of them missing.
IsStructuredReply(r) ==
  /\ r.op \in {"upload_image", "enhance_photo"}
  /\ r.status # JsUndefined
  /\ r.originalUrl # JsUndefined
  /\ r.enhancedUrl # JsUndefined
  /\ r.op = "upload_image" => r.url # JsUndefined

\* A step of the invocation that replied r failed: the decode or the fetch or
\* the call of the backend gave an error on what the invocation was given,
\* or the backend answered with an error field, or the write of the file
\* failed.
StepFailed(r) ==
  \/ r.decodes = 1 /\ ~parseDataUrl(Trim(OrElse(r.arg, EmptyString).s)).ok
  \/ r.fetches = 1 /\ ~fetchImage(r.remote).ok
  \/ r.posts = 1 /\ ~callPhotoProxy(r.backend).ok
  \/ /\ r.posts = 1
     /\ r.backend.kind = "response"
     /\ r.backend.status \in 200..299
     /\ r.backend.json
     /\ ~r.backend.isNull
     /\ r.backend.error # JsUndefined
  \/ r.threw = "write"

\* C18: every invocation of upload_image or enhance_photo ends by returning
\* one structured reply, whatever fails: each step that makes a reply makes a
\* structured one; when the decode, the fetch, the write or the backend call
\* failed, the reply has status ERROR and a message that is not empty; and a
\* handler that leaves the ones waiting for their write has made its reply
\* (no exception leaves the handler without one).
C18_FailuresBecomeErrorReplies ==
  [][/\ (last' # NoReply /\ last'.op \in {"upload_image", "enhance_photo"}) =>
          /\ last = NoReply
          /\ IsStructuredReply(last')
          /\ StepFailed(last') =>
               /\ last'.status = JsString(S_ERROR)
               /\ last'.message # ""
     /\ \A c \in inflight :
          (c.r.op \in {"upload_image", "enhance_photo"}
             /\ \A d \in inflight' : d.filename # c.filename) =>
            /\ last'.op = c.r.op
            /\ last'.arg = c.r.arg
            /\ IsStructuredReply(last')]_vars

\* C19: within one invocation of a tool at most one GET for the image and
\* at most one POST to the backend are issued; upload_image issues no POST;
\* when the fetch failed no POST follows it, and when the call of the backend
\* failed the one POST was the last request: the reply is the error made
\* from it.
C19_NoRetries ==
  last.op \in {"upload_image", "enhance_photo"} =>
    /\ last.fetches \in {0, 1}
    /\ last.posts \in {0, 1}
    /\ last.op = "upload_image" => last.posts = 0
    /\ (last.fetches = 1 /\ ~fetchImage(last.remote).ok) => last.posts = 0
    /\ (last.posts = 1 /\ ~callPhotoProxy(last.backend).ok) =>
         /\ last.threw = "backend"
         /\ last.status = JsString(S_ERROR)

\* C19's case: enhance_photo fetched the image, stored it, called the
\* backend once, and the call failed.
C19_Witness ==
  /\ last.op = "enhance_photo"
  /\ last.fetches = 1
  /\ last.posts = 1
  /\ ~callPhotoProxy(last.backend).ok
  /\ last.status = JsString(S_ERROR)

\* No two stores in progress write the same file name, a store that has not
\* opened its file yet finds no file of its name, and the file of every
\* store that has returned holds the bytes that store was given.
StoresKeepApart ==
  /\ \A c \in inflight : \A d \in inflight : c # d => c.filename # d.filename
  /\ \A c \in inflight : c.phase = "open" => c.filename \notin DOMAIN files
  /\ \A s \in saved : s.filename \in DOMAIN files /\ files[s.filename] = s.buf

\* crypto.randomBytes has returned no identifier twice.
NoIdTwice == \A i \in DOMAIN ids : \A j \in DOMAIN ids : i # j => ids[i] # ids[j]

C21_OnlyTheFieldNamedFile ==
  (call.fn = "parseMultipartSingleFile" /\ call.returned) =>
    LET named == {i \in DOMAIN call.parts :
                    \E j \in DOMAIN call.parts[i].attrs :
                      /\ call.parts[i].attrs[j].k = K_name
                      /\ call.parts[i].attrs[j].v = V_file}
    IN  /\ call.file.found =>
             \E i \in named :
               /\ call.file.content = BufferOf(call.parts[i].content)
               /\ call.file.mime = call.parts[i].mime
        /\ named = {} => ~call.file.found

\* What the request answered by last declares.
UploadOf(r) ==
  CHOOSE q \in UploadRequests : q.ct = r.request.ct /\ q.body = r.request.body

\* C22: POST /upload stores an artifact only when the request is multipart,
\* its body has a field named file and the media type declared for that part
\* is one of image/jpeg, image/png, image/webp, image/gif; for every other
\* request the response is a 400 and the upload directory is as it was.
C22_UploadOnlyAllowedImages ==
  last.op = "POST /upload" =>
    LET q  == UploadOf(last)
        ok == /\ q.ct # JsUndefined
              /\ q.field = V_file
              /\ q.mime \in AllowedMimes
    IN  /\ (last.writes > 0 \/ last.code = 200) => ok
        /\ ~ok => /\ last.code = 400
                  /\ last.writes = 0
                  /\ last.created = {}

TableExt(mime) ==
  CASE mime = <<"i", "m", "a", "g", "e", "/", "j", "p", "e", "g">> -> <<".", "j", "p", "g">>
    [] mime = <<"i", "m", "a", "g", "e", "/", "p", "n", "g">> -> <<".", "p", "n", "g">>
    [] mime = <<"i", "m", "a", "g", "e", "/", "w", "e", "b", "p">> -> <<".", "w", "e", "b", "p">>
    [] mime = <<"i", "m", "a", "g", "e", "/", "g", "i", "f">> -> <<".", "g", "i", "f">>
    [] OTHER -> <<".", "b", "i", "n">>

\* C24: the extension of a stored artifact is the extension of the name hint
\* when the hint has one, otherwise the extension the table gives for the
\* media type (.bin when the type is not in it); for the hints of the tools
\* (uploaded, fetched, from-data-url) it is the table's alone.
C24_ExtensionFromHintThenType ==
  (call.fn = "saveUploadBuffer" /\ call.returned) =>
    LET ext == Drop(call.filename, ID_HEX_LENGTH + 1)
    IN  /\ Slice(call.filename, 1, ID_HEX_LENGTH) = IdOf(0)
        /\ call.hint.ext # <<>> => ext = call.hint.ext
        /\ call.hint.ext = <<>> => ext = TableExt(call.mime)
        /\ call.hint.name \in {N_uploaded, N_fetched, N_from_data_url} =>
             ext = TableExt(call.mime)

\* C24's case: a store of the tool upload_image with the media type
\* image/webp has named its file.
C24_Witness ==
  /\ call.fn = "saveUploadBuffer"
  /\ call.returned
  /\ call.hint.name = N_uploaded
  /\ call.mime = MIME_WEBP
  /\ Drop(call.filename, ID_HEX_LENGTH + 1) = EXT_WEBP

\* The file a GET has served: the stored file whose public URL has the path
\* the request asked for.
Served(s) ==
  /\ last.op = "GET"
  /\ last.code = 200
  /\ last.arg = JsString(Drop(PublicUrl(s.filename), Len(PUBLIC_BASE_URL) + 1))

\* A GET of the URL of an artifact that upload_image stored with one of the
\* four image media types is answered with that media type and the bytes
\* stored.
ImagesServedAsStored ==
  \A s \in saved :
    (s.op = "upload_image" /\ s.mime \in AllowedMimes) =>
      /\ (last.op = "GET"
            /\ last.arg = JsString(Drop(PublicUrl(s.filename), Len(PUBLIC_BASE_URL) + 1))) =>
           last.code = 200
      /\ Served(s) => (last.ctype = s.mime /\ last.body = s.buf)

\* C25 as stated: a GET of the URL upload_image returned for an artifact of
\* media type image/jpeg, image/png, image/webp or image/gif is answered
\* with that media type and the original bytes, and a file of any other
\* extension than .jpg, .png, .webp and .gif is served as
\* application/octet-stream.
C25_ContentTypeFromFourExtensions ==
  /\ ImagesServedAsStored
  /\ \A s \in saved :
       (Served(s) /\ ToLower(extname(s.filename)) \notin {EXT_JPG, EXT_PNG, EXT_WEBP, EXT_GIF}) =>
         last.ctype = MIME_OCTET

\* C25, amended: a GET of the URL upload_image returned for an artifact of
\* media type image/jpeg, image/png, image/webp or image/gif is answered
\* with that media type and the original bytes; a file of extension .jpeg is
\* served as image/jpeg too, and a file of any other extension than .jpg,
\* .jpeg, .png, .webp and .gif (letter case apart) as
\* application/octet-stream.
C25_ContentTypeFromFiveExtensions ==
  /\ ImagesServedAsStored
  /\ \A s \in saved :
       Served(s) =>
         LET ext == ToLower(extname(s.filename))
         IN  /\ ext = <<".", "j", "p", "e", "g">> => last.ctype = MIME_JPEG
             /\ ext \notin {EXT_JPG, EXT_PNG, EXT_WEBP, EXT_GIF, <<".", "j", "p", "e", "g">>} =>
                  last.ctype = MIME_OCTET

\* C25's case: upload_image stored the image/png body of a remote response
\* and a GET of the URL it returned has been answered.
C25_Witness ==
  \E s \in saved :
    /\ s.op = "upload_image"
    /\ s.mime = MIME_PNG
    /\ s.buf = SmallBody
    /\ Served(s)
    /\ last.ctype = MIME_PNG
    /\ last.body = SmallBody

\* The tag the rules of the classifier give, in their order: https-url,
\* http-url, inline-encoded, local-staged-path (with or without the sandbox
\* marker in front), otherwise unsupported.
TagByPrecedence(s) ==
  IF StartsWith(s, <<"h", "t", "t", "p", "s", ":", "/", "/">>) THEN "https-url"
  ELSE IF StartsWith(s, <<"h", "t", "t", "p", ":", "/", "/">>) THEN "http-url"
  ELSE IF isDataUrl(s) THEN "inline-encoded"
  ELSE IF \/ StartsWith(s, <<"/", "m", "n", "t", "/", "d", "a", "t", "a", "/">>)
          \/ StartsWith(s, <<"s", "a", "n", "d", "b", "o", "x", ":",
                             "/", "m", "n", "t", "/", "d", "a", "t", "a", "/">>)
  THEN "local-staged-path"
  ELSE "unsupported"

\* The branches of a handler that stand for a tag; upload_image has one
\* branch, the fetch, for the two kinds of URL, and both handlers answer the
\* empty input before they classify.
BranchesOf(tag, s) ==
  IF s = <<>> THEN {"missing"}
  ELSE IF tag = "https-url" THEN {"https", "fetch"}
  ELSE IF tag = "http-url" THEN {"fetch"}
  ELSE IF tag = "inline-encoded" THEN {"inline"}
  ELSE IF tag = "local-staged-path" THEN {"local"}
  ELSE {"unsupported"}

\* C26: classification is total and single-valued: for every trimmed input
\* each handler takes one branch, the branch of the tag that the rules give
\* in their order of precedence (https, http, inline, local, otherwise
\* unsupported), and upload_image and enhance_photo take the branch of the
\* same tag although they test the predicates in different orders.
C26_BranchIsThePrecedenceTag ==
  (call.fn = "classify" /\ call.returned) =>
    LET branches == BranchesOf(TagByPrecedence(call.input), call.input)
    IN  /\ call.upload \in branches
        /\ call.enhance \in branches

\* The path of the public URL of a stored file.
PathOf(s) == Drop(PublicUrl(s.filename), Len(PUBLIC_BASE_URL) + 1)

\* C27: a public URL is handed to the caller only after the write of the
\* artifact's bytes has completed, and from then on a GET of that URL never
\* finds the file missing or partly written: a reply that carries a URL of
\* this server names a file whose write has returned, every such file holds
\* all its bytes, and every GET of its URL is answered 200 with them.
C27_UrlOnlyAfterTheWrite ==
  /\ (last.op \in {"upload_image", "POST /upload"} /\ last.url \notin {JsUndefined, EmptyString}) =>
       \E s \in saved :
         /\ last.url = JsString(PublicUrl(s.filename))
         /\ s.filename \in DOMAIN files
         /\ files[s.filename] = s.buf
  /\ \A s \in saved :
       /\ s.filename \in DOMAIN files
       /\ files[s.filename] = s.buf
       /\ (last.op = "GET" /\ last.arg = JsString(PathOf(s))) =>
            /\ last.code = 200
            /\ last.body = s.buf

\* C28: whenever enhance_photo replies with status ERROR, the invocation has
\* left no new artifact in the upload directory: none of the files it
\* created is there, also when it stored its input and the call of the
\* backend failed afterwards.
C28_ErrorLeavesNoArtifact ==
  (last.op = "enhance_photo" /\ last.status = JsString(S_ERROR)) =>
    \A f \in last.created : f \notin DOMAIN files

\* C29: in every reply of upload_image the url is not empty exactly when the
\* status is COMPLETED, and then it is <PUBLIC_BASE_URL>/files/ followed by
\* 32 lowercase hexadecimal characters and an extension, the name of a file
\* of the upload directory that holds the bytes the invocation stored.
C29_UrlIffCompleted ==
  last.op = "upload_image" =>
    /\ last.url.t = "string"
    /\ last.url # EmptyString <=> last.status = JsString(S_COMPLETED)
    /\ last.url # EmptyString =>
         \E f \in DOMAIN files :
           /\ last.url = JsString(PUBLIC_BASE_URL \o <<"/", "f", "i", "l", "e", "s", "/">> \o f)
           /\ Len(f) > ID_HEX_LENGTH + 1
           /\ \A i \in 1..ID_HEX_LENGTH : f[i] \in Digits \cup LowerAF
           /\ f[ID_HEX_LENGTH + 1] = "."
           /\ files[f] = last.stored

\* C29's case: upload_image has replied COMPLETED with the URL of the file
\* it stored.
C29_Witness ==
  /\ last.op = "upload_image"
  /\ last.status = JsString(S_COMPLETED)
  /\ last.url # EmptyString
  /\ last.created # {}
  /\ \A f \in last.created : f \in DOMAIN files

-----------------------------------------------------------------------------
\* The /mcp endpoint (src/server.js:512-538).

\* The state of the response after the listeners of its "close" event have
\* run: the listener of the handler closes the transport and the server.
EmitClose_transport_only(r) ==
  [r EXCEPT !.res = "closed",
            !.transport = IF r.listener THEN "closed" ELSE @]

EmitClose(r) ==
  [r EXCEPT !.res = "closed",
            !.transport = IF r.listener THEN "closed" ELSE @,
            !.server = IF r.listener THEN "closed" ELSE @]

\* The pairs constructed so far.
PairsMade == Cardinality({i \in DOMAIN mcp : mcp[i].pairId # 0})

\* A POST, GET or DELETE of /mcp arrives: the handler constructs a server
\* and a transport, registers the listener and calls server.connect.
McpAccept(i) ==
  /\ mcp[i].pc = "idle"
  /\ mcp' = [mcp EXCEPT ![i] = [@ EXCEPT !.pc = "connect",
                                        !.server = "open",
                                        !.transport = "open",
                                        !.pairId = PairsMade + 1,
                                        !.listener = TRUE]]
  /\ UNCHANGED <<files, inflight, nextId, saved, last, dec, ids, call>>

\* await server.connect(transport) settles: it returns or it throws.
McpConnect(i, throws) ==
  /\ mcp[i].pc = "connect"
  /\ mcp' = [mcp EXCEPT ![i].pc = IF throws THEN "catch" ELSE "handle"]
  /\ UNCHANGED <<files, inflight, nextId, saved, last, dec, ids, call>>

\* What transport.handleRequest(req, res) may do: answer the request, throw
\* before it has sent a header, or throw after it has sent the headers.
HandleOutcomes == {"answered", "threw", "threw_late"}

\* await transport.handleRequest(req, res) settles, the response not yet
\* closed.
McpHandle(i, outcome) ==
  /\ mcp[i].pc = "handle"
  /\ mcp[i].res = "open"
  /\ mcp' = [mcp EXCEPT ![i] =
               IF outcome = "answered"
               THEN [@ EXCEPT !.pc = "done", !.headersSent = TRUE,
                              !.code = 200, !.res = "ended"]
               ELSE IF outcome = "threw"
               THEN [@ EXCEPT !.pc = "catch"]
               ELSE [@ EXCEPT !.pc = "catch", !.headersSent = TRUE,
                              !.code = 200]]
  /\ UNCHANGED <<files, inflight, nextId, saved, last, dec, ids, call>>

\* await transport.handleRequest(req, res) settles after the response has
\* closed: nothing can be sent any more, it returns or it throws.
McpHandleClosed(i, throws) ==
  /\ mcp[i].pc = "handle"
  /\ mcp[i].res = "closed"
  /\ mcp' = [mcp EXCEPT ![i].pc = IF throws THEN "catch" ELSE "done"]
  /\ UNCHANGED <<files, inflight, nextId, saved, last, dec, ids, call>>

\* The catch clause of the request handler: it answers 500 unless the
\* headers have been sent (on a closed response the answer goes nowhere).
McpCatch(i) ==
  /\ mcp[i].pc = "catch"
  /\ mcp' = [mcp EXCEPT ![i] =
               IF mcp[i].headersSent
               THEN [@ EXCEPT !.pc = "done"]
               ELSE [@ EXCEPT !.pc = "done", !.headersSent = TRUE,
                              !.code = 500,
                              !.res = IF @ = "open" THEN "ended" ELSE @]]
  /\ UNCHANGED <<files, inflight, nextId, saved, last, dec, ids, call>>

\* The response has been ended and sent: it closes.
McpFinish(i) ==
  /\ mcp[i].res = "ended"
  /\ mcp' = [mcp EXCEPT ![i] = EmitClose(@)]
  /\ UNCHANGED <<files, inflight, nextId, saved, last, dec, ids, call>>

\* The client goes away while the response is open: the response closes.
\* The handler is then waiting for handleRequest, or it has returned and
\* left the response open.
McpAbort(i) ==
  /\ mcp[i].pc \in {"handle", "done"}
  /\ mcp[i].res = "open"
  /\ mcp' = [mcp EXCEPT ![i] = EmitClose(@)]
  /\ UNCHANGED <<files, inflight, nextId, saved, last, dec, ids, call>>

McpNext ==
  \E i \in 1..MaxRequests :
    \/ McpAccept(i)
    \/ \E throws \in BOOLEAN : McpConnect(i, throws)
    \/ \E outcome \in HandleOutcomes : McpHandle(i, outcome)
    \/ \E throws \in BOOLEAN : McpHandleClosed(i, throws)
    \/ McpCatch(i)
    \/ McpFinish(i)
    \/ McpAbort(i)

\* The requests to /mcp.  The handler runs on 'throws' and 'outcome' as
\* they come; a response that has been ended is sent and closes.
McpSpec ==
  /\ Init
  /\ [][McpNext]_vars
  /\ \A i \in 1..MaxRequests : WF_vars(McpCatch(i)) /\ WF_vars(McpFinish(i))

\* C30: each request to /mcp has a server and a transport of its own, no
\* step of one request touches another request's, no pair is open once its
\* response has closed, and a request whose connecting or handling threw
\* before a header was sent is answered 500 and its pair gets closed.
PairClosed(r) == r.server = "closed" /\ r.transport = "closed"

C30_PairClosedWithTheResponse ==
  /\ [](\A i, j \in 1..MaxRequests :
          i # j /\ mcp[i].pairId # 0 => mcp[i].pairId # mcp[j].pairId)
  /\ [][\A i, j \in 1..MaxRequests :
          i # j /\ mcp'[i] # mcp[i] => mcp'[j] = mcp[j]]_vars
  /\ [](\A i \in 1..MaxRequests :
          mcp[i].res = "closed" => PairClosed(mcp[i]))
  /\ \A i \in 1..MaxRequests :
       (mcp[i].pc = "catch" /\ ~mcp[i].headersSent /\ mcp[i].res = "open")
         ~> (mcp[i].code = 500 /\ PairClosed(mcp[i]))

\* A request whose connecting threw was answered 500, its response has
\* closed and its pair is closed, while another request has a pair too.
C30_Witness ==
  \E i, j \in 1..MaxRequests :
    /\ i # j
    /\ mcp[i].code = 500
    /\ mcp[i].res = "closed"
    /\ PairClosed(mcp[i])
    /\ mcp[j].pairId # 0

=============================================================================
